---- MODULE Spec2Model ----
(***************************************************************************)
(* A model of the FoundationDesign package: the pad footing analysis and   *)
(* design objects (foundationdesign.py), the combined two-column footing   *)
(* analysis and design objects (combinedfootingdesign.py) and the pure     *)
(* helpers of concretedesignfunc.py.                                       *)
(*                                                                         *)
(* Numbers.  Python floats are modelled by exact scaled integers:          *)
(*   - footing plan dimensions and column positions in decimetres          *)
(*     (the inputs are multiples of 100 mm; the code's value in metres is  *)
(*     the model's value / 10),                                            *)
(*   - thicknesses, soil depths, column sizes, covers and bars in mm,      *)
(*   - loads in kN, moments in kNm, unit weights in kN/m3,                 *)
(*   - the partial factors in hundredths (1.35 is 135).                    *)
(* Each derived quantity states its own scale.  round(x, n) is modelled on *)
(* the exact value (RoundDiv).                                             *)
(*                                                                         *)
(* A Python value that is not an int or a float (what assert_number        *)
(* rejects) is modelled by the token NotANumber.                           *)
(***************************************************************************)
EXTENDS Integers, Sequences, FiniteSets, TLC

VARIABLES
    pad,      \* the PadFoundation object
    pdes,     \* the padFoundationDesign object wrapping pad
    cf,       \* the CombinedFootingAnalysis object
    cdes,     \* the CombinedFootingDesign object wrapping cf
    rp,       \* the last two reinforcement_provision calls: arguments and result
    ret,      \* what the last call returned
    outcome,  \* how the last call ended: "init", "ok" or "raised"
    op,       \* the name of the method called last ("" before the first call)
    last,     \* history: the arguments of the most recent successful setter calls
    calls     \* number of calls made so far

vars == <<pad, pdes, cf, cdes, rp, ret, outcome, op, last, calls>>

(***************************************************************************)
(* Bounds of the model.                                                    *)
(***************************************************************************)
MaxCalls == 3

(***************************************************************************)
(* Arithmetic helpers.                                                     *)
(***************************************************************************)
NotANumber == 0 - 999999

Abs(x) == IF x < 0 THEN 0 - x ELSE x

Max2(a, b) == IF a >= b THEN a ELSE b

Min2(a, b) == IF a <= b THEN a ELSE b

\* floor(n / d) for d > 0 (\div is floored division in TLA+)
FloorDiv(n, d) == n \div d

\* Python round(n / d) for d > 0: to the nearest integer, a tie to the even one
RoundDiv(n, d) ==
    LET q == n \div d
        r == n % d
    IN  IF 2 * r < d THEN q
        ELSE IF 2 * r > d THEN q + 1
        ELSE IF q % 2 = 0 THEN q ELSE q + 1

SumSeq(s) ==
    LET RECURSIVE S(_)
        S(k) == IF k = 0 THEN 0 ELSE s[k] + S(k - 1)
    IN  S(Len(s))

(***************************************************************************)
(* FoundationDesign.datavalidation.  Each operator is TRUE when the call   *)
(* returns and FALSE when it raises.                                       *)
(***************************************************************************)
assert_number(value) == value # NotANumber

assert_strictly_positive_number(value) == assert_number(value) /\ value > 0

assert_input_limit(value, limit) == assert_number(value) /\ value >= limit

assert_maximum_input_limit(value, limit) == assert_number(value) /\ value <= limit

assert_input_range(value, range) == value \in range

(***************************************************************************)
(* The partial factors (class attributes), in hundredths.                  *)
(***************************************************************************)
uls_strength_factor_permanent == 135

uls_strength_factor_imposed == 150

uls_strength_factor_imposed_unfavourable == 0

\* Attribute lookup of a partial factor on an instance: the value assigned on
\* the instance when there is one, else the class attribute.
uls_strength_factor_permanent_of(obj) ==
    IF "uls_strength_factor_permanent" \in DOMAIN obj
    THEN obj.uls_strength_factor_permanent
    ELSE uls_strength_factor_permanent

uls_strength_factor_imposed_of(obj) ==
    IF "uls_strength_factor_imposed" \in DOMAIN obj
    THEN obj.uls_strength_factor_imposed
    ELSE uls_strength_factor_imposed

uls_strength_factor_imposed_unfavourable_of(obj) ==
    IF "uls_strength_factor_imposed_unfavourable" \in DOMAIN obj
    THEN obj.uls_strength_factor_imposed_unfavourable
    ELSE uls_strength_factor_imposed_unfavourable

(***************************************************************************)
(* CombinedFootingAnalysis.                                                *)
(***************************************************************************)
LoadFields ==
    { "column_1_axial_loads", "column_1_horizontal_loads_xdir",
      "column_1_horizontal_loads_ydir", "column_1_moments_xdir",
      "column_1_moments_ydir",
      "column_2_axial_loads", "column_2_horizontal_loads_xdir",
      "column_2_horizontal_loads_ydir", "column_2_moments_xdir",
      "column_2_moments_ydir" }

\* __init__(foundation_length, foundation_width, soil_bearing_capacity,
\* spacing_btwn_columns): the object a successful construction leaves.
\* column_length, column_width, col_pos_xdir, col_pos_ydir and the fields
\* permanent_*, imposed_*, wind_* (kept here as the triples axial, hx, hy, mx,
\* my) are attributes the update methods write before they validate.
CombinedFootingAnalysis_init(length, width, capacity, spacing) ==
    [ foundation_length |-> length,
      foundation_width |-> width,
      soil_bearing_capacity |-> capacity,
      spacing_btwn_columns |-> spacing,
      column_length |-> 100 * 1000,
      column_width |-> 100 * 1000,
      col_pos_xdir |-> (length * 100 * 10) \div 2,
      col_pos_ydir |-> (width * 100 * 10) \div 2,
      foundation_thickness |-> 0,
      soil_depth_abv_foundation |-> 0,
      soil_unit_weight |-> 18,
      concrete_unit_weight |-> 24,
      consider_self_weight |-> TRUE,
      axial |-> <<0, 0, 0>>,
      hx |-> <<0, 0, 0>>,
      hy |-> <<0, 0, 0>>,
      mx |-> <<0, 0, 0>>,
      my |-> <<0, 0, 0>>,
      column_1_geometry |-> <<>>,
      column_2_geometry |-> <<>>,
      column_1_axial_loads |-> <<0, 0, 0>>,
      column_1_horizontal_loads_xdir |-> <<0, 0, 0>>,
      column_1_horizontal_loads_ydir |-> <<0, 0, 0>>,
      column_1_moments_xdir |-> <<0, 0, 0>>,
      column_1_moments_ydir |-> <<0, 0, 0>>,
      column_2_axial_loads |-> <<0, 0, 0>>,
      column_2_horizontal_loads_xdir |-> <<0, 0, 0>>,
      column_2_horizontal_loads_ydir |-> <<0, 0, 0>>,
      column_2_moments_xdir |-> <<0, 0, 0>>,
      column_2_moments_ydir |-> <<0, 0, 0>> ]

CombinedFootingAnalysis_init_ok(length, width, capacity) ==
    /\ assert_strictly_positive_number(length)
    /\ assert_strictly_positive_number(width)
    /\ assert_strictly_positive_number(capacity)
    /\ assert_input_limit(length, 8)
    /\ assert_input_limit(width, 8)

\* The three numbers of a load update all pass assert_number.
LoadArgsOk(args) ==
    /\ assert_number(args[1])
    /\ assert_number(args[2])
    /\ assert_number(args[3])

\* The body shared by the ten update_column_N_<kind> methods: the three
\* attributes are assigned, the arguments validated, then list `cleared` is
\* cleared and list `extended` is extended by the three arguments.
UpdatedLoads(obj, attr, cleared, extended, args) ==
    LET assigned == [obj EXCEPT ![attr] = args]
        emptied == [assigned EXCEPT ![cleared] = <<>>]
    IN  IF LoadArgsOk(args)
        THEN [emptied EXCEPT ![extended] = emptied[extended] \o args]
        ELSE assigned

\* One call of an update_column_N_<kind> method, `field` being the list the
\* method is named after.
UpdateCall(attr, cleared, extended, field, args) ==
    /\ calls < MaxCalls
    /\ calls' = calls + 1
    /\ cf' = UpdatedLoads(cf, attr, cleared, extended, args)
    /\ outcome' = IF LoadArgsOk(args) THEN "ok" ELSE "raised"
    /\ last' = IF LoadArgsOk(args)
               THEN [last EXCEPT ![field] = args, !.times[field] = @ + 1]
               ELSE last
    /\ ret' = <<>>
    /\ UNCHANGED <<pad, pdes, cdes, rp>>

update_column_1_axial_loads(args) ==
    /\ op' = "update_column_1_axial_loads"
    /\ UpdateCall("axial", "column_1_axial_loads",
       "column_1_axial_loads", "column_1_axial_loads", args)

update_column_1_horizontal_loads_xdir(args) ==
    /\ op' = "update_column_1_horizontal_loads_xdir"
    /\ UpdateCall("hx", "column_1_horizontal_loads_xdir",
       "column_1_horizontal_loads_xdir", "column_1_horizontal_loads_xdir", args)

update_column_1_horizontal_loads_ydir(args) ==
    /\ op' = "update_column_1_horizontal_loads_ydir"
    /\ UpdateCall("hy", "column_1_horizontal_loads_ydir",
       "column_1_horizontal_loads_ydir", "column_1_horizontal_loads_ydir", args)

update_column_1_moments_xdir(args) ==
    /\ op' = "update_column_1_moments_xdir"
    /\ UpdateCall("mx", "column_1_moments_xdir",
       "column_1_moments_xdir", "column_1_moments_xdir", args)

update_column_1_moments_ydir(args) ==
    /\ op' = "update_column_1_moments_ydir"
    /\ UpdateCall("my", "column_1_moments_ydir",
       "column_1_moments_ydir", "column_1_moments_ydir", args)

update_column_2_axial_loads(args) ==
    /\ op' = "update_column_2_axial_loads"
    /\ UpdateCall("axial", "column_2_axial_loads",
       "column_2_axial_loads", "column_2_axial_loads", args)

update_column_2_horizontal_loads_xdir(args) ==
    /\ op' = "update_column_2_horizontal_loads_xdir"
    /\ UpdateCall("hx", "column_2_horizontal_loads_xdir",
       "column_2_horizontal_loads_xdir", "column_2_horizontal_loads_xdir", args)

update_column_2_horizontal_loads_ydir(args) ==
    /\ op' = "update_column_2_horizontal_loads_ydir"
    /\ UpdateCall("hy", "column_2_horizontal_loads_ydir",
       "column_2_horizontal_loads_ydir", "column_2_horizontal_loads_ydir", args)

update_column_2_moments_xdir(args) ==
    /\ op' = "update_column_2_moments_xdir"
    /\ UpdateCall("mx", "column_2_moments_xdir",
       "column_2_moments_xdir", "column_2_moments_xdir", args)

\* lines 671-672: the list cleared is column 1's, the list extended column 2's
update_column_2_moments_ydir(args) ==
    /\ op' = "update_column_2_moments_ydir"
    /\ UpdateCall("my", "column_1_moments_ydir",
       "column_2_moments_ydir", "column_2_moments_ydir", args)

\* foundation_loads of CombinedFootingAnalysis, lines 676-744: the object after
\* the call.  The four numbers are checked by assert_number before anything is
\* stored; the five attributes are stored before the limits are checked.
\* Thickness and depth are kept in mm: for the whole millimetres of the model
\* (below 2000) the stored value times 1000 is not above the argument, so the
\* first two limit checks pass.
CF_foundation_loads_numbers(a) ==
    /\ assert_number(a[1])
    /\ assert_number(a[2])
    /\ assert_number(a[3])
    /\ assert_number(a[4])

CF_foundation_loads_stored(obj, a, csw) ==
    IF CF_foundation_loads_numbers(a)
    THEN [obj EXCEPT !.foundation_thickness = a[1],
                     !.soil_depth_abv_foundation = a[2],
                     !.soil_unit_weight = a[3],
                     !.concrete_unit_weight = a[4],
                     !.consider_self_weight = csw]
    ELSE obj

CF_foundation_loads_ok(a) ==
    /\ CF_foundation_loads_numbers(a)
    /\ assert_input_limit(a[1], a[1])
    /\ assert_input_limit(a[2], a[2])
    /\ assert_input_limit(a[3], 18)
    /\ assert_input_limit(a[4], 0)

\* The list foundation_loads returns, [self weight, soil weight], in
\* thousandths of kN/m2: mm times kN/m3 is already a whole number of
\* thousandths, which round(., 3) keeps.
CF_foundation_loads_result(a, csw) ==
    << IF csw THEN RoundDiv(a[1] * a[4], 1) ELSE 0, RoundDiv(a[2] * a[3], 1) >>

\* The arguments with which every query calls foundation_loads again.
CF_stored_foundation_args(obj) ==
    << obj.foundation_thickness, obj.soil_depth_abv_foundation,
       obj.soil_unit_weight, obj.concrete_unit_weight >>

\* area_of_foundation, in hundredths of m2
CF_area_of_foundation(obj) == obj.foundation_length * obj.foundation_width

\* zip(column_1_axial_loads, column_2_axial_loads, foundation_loads) stops at
\* the shortest list.
ZipLen3(s1, s2) == Min2(Min2(Len(s1), Len(s2)), 3)

\* Every entry the arithmetic of a query reads is a number.
AllNumbers(s) == \A i \in 1..Len(s) : assert_number(s[i])

\* total_force_Z_dir_uls of CombinedFootingAnalysis, lines 1506-1537, in
\* 10^-7 kN.  It is not rounded.
CF_total_force_Z_dir_uls_value(obj) ==
    LET fdn_loads == CF_foundation_loads_result(CF_stored_foundation_args(obj),
                                                obj.consider_self_weight)
        foundation_loads == << (fdn_loads[1] + fdn_loads[2])
                                  * CF_area_of_foundation(obj), 0, 0 >>
        partial_factor_set == << uls_strength_factor_permanent_of(obj),
                                 uls_strength_factor_imposed_of(obj),
                                 uls_strength_factor_imposed_of(obj) >>
        n == ZipLen3(obj.column_1_axial_loads, obj.column_2_axial_loads)
        load_sum == [ i \in 1..n |->
                       100000 * (obj.column_1_axial_loads[i]
                                 + obj.column_2_axial_loads[i])
                       + foundation_loads[i] ]
    IN  SumSeq([ i \in 1..n |-> partial_factor_set[i] * load_sum[i] ])

\* A call of foundation_loads on the combined footing.
CF_foundation_loads(a, csw) ==
    /\ calls < MaxCalls
    /\ calls' = calls + 1
    /\ op' = "CF_foundation_loads"
    /\ cf' = CF_foundation_loads_stored(cf, a, csw)
    /\ outcome' = IF CF_foundation_loads_ok(a) THEN "ok" ELSE "raised"
    /\ ret' = IF CF_foundation_loads_ok(a)
              THEN CF_foundation_loads_result(a, csw) ELSE <<>>
    /\ last' = IF CF_foundation_loads_ok(a)
               THEN [last EXCEPT !.cf_foundation_loads = a,
                                 !.cf_consider_self_weight = csw,
                                 !.times["cf_foundation_loads"] = @ + 1]
               ELSE last
    /\ UNCHANGED <<pad, pdes, cdes, rp>>

\* A query of the combined footing first calls foundation_loads with the stored
\* values, which raises when a stored unit weight is below its limit.
CF_query_ok(obj) == CF_foundation_loads_ok(CF_stored_foundation_args(obj))

\* A call of total_force_Z_dir_uls on the combined footing.
CF_total_force_Z_dir_uls ==
    LET done == /\ CF_query_ok(cf)
                /\ AllNumbers(cf.column_1_axial_loads)
                /\ AllNumbers(cf.column_2_axial_loads)
    IN  /\ calls < MaxCalls
        /\ calls' = calls + 1
        /\ op' = "CF_total_force_Z_dir_uls"
        /\ cf' = CF_foundation_loads_stored(cf, CF_stored_foundation_args(cf),
                                            cf.consider_self_weight)
        /\ outcome' = IF done THEN "ok" ELSE "raised"
        /\ ret' = IF done THEN << CF_total_force_Z_dir_uls_value(cf) >> ELSE <<>>
        /\ UNCHANGED <<pad, pdes, cdes, rp, last>>

(***************************************************************************)
(* PadFoundation.                                                          *)
(***************************************************************************)
\* __init__, lines 120-209: the arguments are validated, then stored.
PadFoundation_init_ok(length, width, column_length, column_width, x, y, capacity) ==
    /\ assert_strictly_positive_number(length)
    /\ assert_strictly_positive_number(width)
    /\ assert_strictly_positive_number(column_length)
    /\ assert_strictly_positive_number(column_width)
    /\ assert_strictly_positive_number(x)
    /\ assert_strictly_positive_number(y)
    /\ assert_strictly_positive_number(capacity)
    /\ assert_input_limit(length, 8)
    /\ assert_input_limit(width, 8)
    /\ assert_input_limit(column_length, 100)
    /\ assert_input_limit(column_width, 100)
    /\ assert_maximum_input_limit(x, length)
    /\ assert_maximum_input_limit(y, width)

PadFoundation_init(length, width, column_length, column_width, x, y, capacity) ==
    [ foundation_length |-> length,
      foundation_width |-> width,
      column_length |-> column_length,
      column_width |-> column_width,
      soil_bearing_capacity |-> capacity,
      foundation_thickness |-> 0,
      soil_depth_abv_foundation |-> 0,
      soil_unit_weight |-> 18,
      concrete_unit_weight |-> 24,
      permanent_axial_load |-> 0,
      permanent_horizontal_load_xdir |-> 0,
      permanent_horizontal_load_ydir |-> 0,
      permanent_moment_xdir |-> 0,
      permanent_moment_ydir |-> 0,
      imposed_axial_load |-> 0,
      imposed_horizontal_load_xdir |-> 0,
      imposed_horizontal_load_ydir |-> 0,
      imposed_moment_xdir |-> 0,
      imposed_moment_ydir |-> 0,
      wind_axial_load |-> 0,
      wind_horizontal_load_xdir |-> 0,
      wind_horizontal_load_ydir |-> 0,
      wind_moments_xdir |-> 0,
      wind_moments_ydir |-> 0,
      col_pos_xdir |-> x,
      col_pos_ydir |-> y ]

\* foundation_loads of PadFoundation, lines 262-319.
Pad_foundation_loads_numbers(a) ==
    /\ assert_number(a[1])
    /\ assert_number(a[2])
    /\ assert_number(a[3])
    /\ assert_number(a[4])

Pad_foundation_loads_stored(obj, a) ==
    IF Pad_foundation_loads_numbers(a)
    THEN [obj EXCEPT !.foundation_thickness = a[1],
                     !.soil_depth_abv_foundation = a[2],
                     !.soil_unit_weight = a[3],
                     !.concrete_unit_weight = a[4]]
    ELSE obj

Pad_foundation_loads_ok(a) ==
    /\ Pad_foundation_loads_numbers(a)
    /\ assert_input_limit(a[1], a[1])
    /\ assert_input_limit(a[2], a[2])
    /\ assert_input_limit(a[3], 18)
    /\ assert_input_limit(a[4], 24)

\* the list with the two unit weights exchanged
Pad_foundation_loads_result_exchanged(a) ==
    << RoundDiv(a[1] * a[3], 1), RoundDiv(a[2] * a[4], 1) >>

\* [self weight, soil weight] in thousandths of kN/m2
Pad_foundation_loads_result(a) ==
    << RoundDiv(a[1] * a[4], 1), RoundDiv(a[2] * a[3], 1) >>

Pad_stored_foundation_args(obj) ==
    << obj.foundation_thickness, obj.soil_depth_abv_foundation,
       obj.soil_unit_weight, obj.concrete_unit_weight >>

Pad_query_ok(obj) == Pad_foundation_loads_ok(Pad_stored_foundation_args(obj))

\* area_of_foundation, in hundredths of m2
Pad_area_of_foundation(obj) == obj.foundation_length * obj.foundation_width

Pad_foundation_loads(a) ==
    /\ calls < MaxCalls
    /\ calls' = calls + 1
    /\ op' = "Pad_foundation_loads"
    /\ pad' = Pad_foundation_loads_stored(pad, a)
    /\ outcome' = IF Pad_foundation_loads_ok(a) THEN "ok" ELSE "raised"
    /\ ret' = IF Pad_foundation_loads_ok(a)
              THEN Pad_foundation_loads_result(a) ELSE <<>>
    /\ last' = IF Pad_foundation_loads_ok(a)
               THEN [last EXCEPT !.pad_foundation_loads = a,
                                 !.times["pad_foundation_loads"] = @ + 1]
               ELSE last
    /\ UNCHANGED <<pdes, cf, cdes, rp>>

\* The body shared by column_axial_loads, column_horizontal_loads_xdir/ydir and
\* column_moments_xdir/ydir, lines 321-468: the three attributes are assigned,
\* then the three arguments are validated.
PadLoadsAssigned(obj, permanent, imposed, wind, args) ==
    [obj EXCEPT ![permanent] = args[1], ![imposed] = args[2], ![wind] = args[3]]

PadLoadCall(name, permanent, imposed, wind, args) ==
    /\ calls < MaxCalls
    /\ calls' = calls + 1
    /\ pad' = PadLoadsAssigned(pad, permanent, imposed, wind, args)
    /\ outcome' = IF LoadArgsOk(args) THEN "ok" ELSE "raised"
    /\ last' = IF LoadArgsOk(args)
               THEN [last EXCEPT ![name] = args, !.times[name] = @ + 1]
               ELSE last
    /\ ret' = <<>>
    /\ UNCHANGED <<pdes, cf, cdes, rp>>

column_axial_loads(args) ==
    /\ op' = "column_axial_loads"
    /\ PadLoadCall("column_axial_loads", "permanent_axial_load",
       "imposed_axial_load", "wind_axial_load", args)

column_horizontal_loads_xdir(args) ==
    /\ op' = "column_horizontal_loads_xdir"
    /\ PadLoadCall("column_horizontal_loads_xdir", "permanent_horizontal_load_xdir",
       "imposed_horizontal_load_xdir", "wind_horizontal_load_xdir", args)

column_horizontal_loads_ydir(args) ==
    /\ op' = "column_horizontal_loads_ydir"
    /\ PadLoadCall("column_horizontal_loads_ydir", "permanent_horizontal_load_ydir",
       "imposed_horizontal_load_ydir", "wind_horizontal_load_ydir", args)

column_moments_xdir(args) ==
    /\ op' = "column_moments_xdir"
    /\ PadLoadCall("column_moments_xdir", "permanent_moment_xdir",
       "imposed_moment_xdir", "wind_moments_xdir", args)

column_moments_ydir(args) ==
    /\ op' = "column_moments_ydir"
    /\ PadLoadCall("column_moments_ydir", "permanent_moment_ydir",
       "imposed_moment_ydir", "wind_moments_ydir", args)

\* round(total, 3) of a total given as whole + part / unit thousandths
Round3(whole, part, unit) ==
    LET q == part \div unit
        r == part % unit
    IN  IF 2 * r < unit THEN whole + q
        ELSE IF 2 * r > unit THEN whole + q + 1
        ELSE IF (whole + q) % 2 = 0 THEN whole + q ELSE whole + q + 1

\* total_force_Z_dir_uls of PadFoundation, lines 891-916, in thousandths of kN.
\* The factored column loads are whole hundredths of kN; the factored footing
\* and soil weight is in 10^-7 kN.
Pad_total_force_Z_dir_uls_wind_unfavourable(obj) ==
    LET fdn_loads == Pad_foundation_loads_result(Pad_stored_foundation_args(obj))
    IN  Round3(10 * (uls_strength_factor_imposed_of(obj) * obj.imposed_axial_load
                     + uls_strength_factor_imposed_unfavourable_of(obj) * obj.wind_axial_load
                     + uls_strength_factor_permanent_of(obj) * obj.permanent_axial_load),
               uls_strength_factor_permanent_of(obj)
                 * (Pad_area_of_foundation(obj) * (fdn_loads[1] + fdn_loads[2])),
               10000)

Pad_total_force_Z_dir_uls_value(obj) ==
    LET fdn_loads == Pad_foundation_loads_result(Pad_stored_foundation_args(obj))
    IN  Round3(10 * (uls_strength_factor_imposed_of(obj) * obj.imposed_axial_load
                     + uls_strength_factor_imposed_of(obj) * obj.wind_axial_load
                     + uls_strength_factor_permanent_of(obj) * obj.permanent_axial_load),
               uls_strength_factor_permanent_of(obj)
                 * (Pad_area_of_foundation(obj) * (fdn_loads[1] + fdn_loads[2])),
               10000)

Pad_total_force_Z_dir_uls ==
    LET done == /\ Pad_query_ok(pad)
                /\ assert_number(pad.permanent_axial_load)
                /\ assert_number(pad.imposed_axial_load)
                /\ assert_number(pad.wind_axial_load)
    IN  /\ calls < MaxCalls
        /\ calls' = calls + 1
        /\ op' = "Pad_total_force_Z_dir_uls"
        /\ pad' = Pad_foundation_loads_stored(pad, Pad_stored_foundation_args(pad))
        /\ outcome' = IF done THEN "ok" ELSE "raised"
        /\ ret' = IF done THEN << Pad_total_force_Z_dir_uls_value(pad) >> ELSE <<>>
        /\ UNCHANGED <<pdes, cf, cdes, rp, last>>

(***************************************************************************)
(* The objects the state machines start from, and the arguments the calls  *)
(* draw from.                                                              *)
(***************************************************************************)
PadObjects ==
    { PadFoundation_init(a[1], a[2], a[3], a[4], a[5], a[6], a[7]) :
        a \in { b \in { <<12, 10, 300, 300, 6, 5, 150>>,
                        <<12, 10, 400, 300, 4, 5, 200>> } :
                  PadFoundation_init_ok(b[1], b[2], b[3], b[4], b[5], b[6], b[7]) } }

CombinedObjects ==
    { CombinedFootingAnalysis_init(a[1], a[2], a[3], a[4]) :
        a \in { b \in { <<12, 10, 150, 6>> } :
                  CombinedFootingAnalysis_init_ok(b[1], b[2], b[3]) } }

LoadArgs == { <<10, 5, 0>>, <<15, 0, 5>>, <<10, NotANumber, 0>> }

FoundationLoadArgs ==
    { <<300, 500, 18, 24>>, <<400, 0, 20, 25>>, <<300, 500, 10, 24>>,
      <<NotANumber, 500, 18, 24>> }

PadLoadSetters ==
    { "column_axial_loads", "column_horizontal_loads_xdir",
      "column_horizontal_loads_ydir", "column_moments_xdir",
      "column_moments_ydir" }

\* The history starts with the values the constructors store and no call made.
InitLast ==
    [ f \in LoadFields |-> <<0, 0, 0>> ] @@
    [ times |-> [ f \in LoadFields \cup PadLoadSetters
                        \cup { "pad_foundation_loads", "cf_foundation_loads",
                               "column_1_geometry", "column_2_geometry" }
                    |-> 0 ],
      column_1_geometry |-> <<>>,
      column_2_geometry |-> <<>>,
      column_axial_loads |-> <<0, 0, 0>>,
      column_horizontal_loads_xdir |-> <<0, 0, 0>>,
      column_horizontal_loads_ydir |-> <<0, 0, 0>>,
      column_moments_xdir |-> <<0, 0, 0>>,
      column_moments_ydir |-> <<0, 0, 0>>,
      pad_foundation_loads |-> <<0, 0, 18, 24>>,
      cf_foundation_loads |-> <<0, 0, 18, 24>>,
      cf_consider_self_weight |-> TRUE ]

Init ==
    /\ pad \in PadObjects
    /\ cf \in CombinedObjects
    /\ pdes = <<>>
    /\ cdes = <<>>
    /\ rp = <<>>
    /\ ret = <<>>
    /\ outcome = "init"
    /\ op = ""
    /\ last = InitLast
    /\ calls = 0

(***************************************************************************)
(* The load ledger of the combined footing: the ten update methods.        *)
(***************************************************************************)
NextLedger ==
    \/ \E args \in LoadArgs : update_column_1_axial_loads(args)
    \/ \E args \in LoadArgs : update_column_1_horizontal_loads_xdir(args)
    \/ \E args \in LoadArgs : update_column_1_horizontal_loads_ydir(args)
    \/ \E args \in LoadArgs : update_column_1_moments_xdir(args)
    \/ \E args \in LoadArgs : update_column_1_moments_ydir(args)
    \/ \E args \in LoadArgs : update_column_2_axial_loads(args)
    \/ \E args \in LoadArgs : update_column_2_horizontal_loads_xdir(args)
    \/ \E args \in LoadArgs : update_column_2_horizontal_loads_ydir(args)
    \/ \E args \in LoadArgs : update_column_2_moments_xdir(args)
    \/ \E args \in LoadArgs : update_column_2_moments_ydir(args)

SpecLedger == Init /\ [][NextLedger]_vars

\* C1: every load list of the combined footing is the triple of the most
\* recent successful update call for that column and kind, [0, 0, 0] before
\* the first.
C1_LedgerHoldsLastTriple == \A f \in LoadFields : cf[f] = last[f]

(***************************************************************************)
(* Axial loads, foundation loads and the ULS vertical total, on the pad    *)
(* and on the combined footing.                                            *)
(***************************************************************************)
NextAxial ==
    \/ \E a \in FoundationLoadArgs : Pad_foundation_loads(a)
    \/ \E args \in LoadArgs : column_axial_loads(args)
    \/ Pad_total_force_Z_dir_uls
    \/ \E a \in FoundationLoadArgs, csw \in BOOLEAN : CF_foundation_loads(a, csw)
    \/ \E args \in LoadArgs : update_column_1_axial_loads(args)
    \/ \E args \in LoadArgs : update_column_2_axial_loads(args)
    \/ CF_total_force_Z_dir_uls

SpecAxial == Init /\ [][NextAxial]_vars

\* The ULS vertical total of the formula, in 10^-7 kN: gamma_G times the
\* permanent axial load and the footing and soil weight over the footing area,
\* gamma_Q times the imposed and gamma_Q times the wind axial load.  fl is
\* <<thickness, soil depth, soil unit weight, concrete unit weight>>.
FormulaForceZUls(length, width, fl, self_weight, permanent, imposed, wind) ==
    135 * (100000 * permanent
           + length * width
               * ((IF self_weight THEN fl[1] * fl[4] ELSE 0) + fl[2] * fl[3]))
    + 150 * 100000 * imposed
    + 150 * 100000 * wind

C3_RejectedSetterChangesNothing ==
    [][ (outcome' = "raised"
         /\ op' \in { "Pad_foundation_loads", "column_axial_loads",
                      "CF_foundation_loads", "update_column_1_axial_loads",
                      "update_column_2_axial_loads" })
        => (pad' = pad /\ cf' = cf) ]_vars

(***************************************************************************)
(* Column geometry of the combined footing.                                *)
(***************************************************************************)
\* update_column_1_geometry, lines 150-208 (n = 1), and
\* update_column_2_geometry, lines 210-268 (n = 2), with arguments
\* g = <<column_length, column_width, col_pos_xdir, col_pos_ydir>>: lengths in
\* mm, positions in dm.  The second method does not ask column_width to be
\* strictly positive.
CF_geometry_ok(obj, n, g) ==
    /\ assert_strictly_positive_number(g[1])
    /\ n = 1 => assert_strictly_positive_number(g[2])
    /\ assert_strictly_positive_number(g[3])
    /\ assert_strictly_positive_number(g[4])
    /\ assert_input_limit(g[1], 100)
    /\ assert_input_limit(g[2], 100)
    /\ assert_maximum_input_limit(g[3], obj.foundation_length)
    /\ assert_maximum_input_limit(g[4], obj.foundation_width)

\* The four attributes are assigned first; the list of column n is extended,
\* never cleared, once the arguments are accepted.
CF_geometry_updated(obj, n, g) ==
    LET assigned == [obj EXCEPT !.column_length = g[1], !.column_width = g[2],
                                !.col_pos_xdir = g[3], !.col_pos_ydir = g[4]]
    IN  IF ~ CF_geometry_ok(obj, n, g) THEN assigned
        ELSE IF n = 1
        THEN [assigned EXCEPT !.column_1_geometry = @ \o g]
        ELSE [assigned EXCEPT !.column_2_geometry = @ \o g]

GeometryCall(n, field, g) ==
    /\ calls < MaxCalls
    /\ calls' = calls + 1
    /\ cf' = CF_geometry_updated(cf, n, g)
    /\ outcome' = IF CF_geometry_ok(cf, n, g) THEN "ok" ELSE "raised"
    /\ last' = IF CF_geometry_ok(cf, n, g)
               THEN [last EXCEPT ![field] = g, !.times[field] = @ + 1]
               ELSE last
    /\ ret' = <<>>
    /\ UNCHANGED <<pad, pdes, cdes, rp>>

update_column_1_geometry(g) ==
    /\ op' = "update_column_1_geometry"
    /\ GeometryCall(1, "column_1_geometry", g)

update_column_2_geometry(g) ==
    /\ op' = "update_column_2_geometry"
    /\ GeometryCall(2, "column_2_geometry", g)

\* total_moments_X_direction_sls, lines 871-919, in thousandths of kNm, with
\* the x positions x1, x2 of the two columns: the axial loads times the
\* position, the moments and the horizontal loads times the thickness are whole
\* thousandths; the footing and soil weight times half the length is in
\* 5 * 10^-7 kNm.
CF_moments_X_sls_at(obj, x1, x2) ==
    LET fdn_loads == CF_foundation_loads_result(CF_stored_foundation_args(obj),
                                                obj.consider_self_weight)
        column(axial, x, moments, horizontal) ==
            SumSeq([ i \in 1..3 |->
                       100 * axial[i] * x + 1000 * moments[i]
                       + horizontal[i] * obj.foundation_thickness ])
        Mdx_column_1 == column(obj.column_1_axial_loads, x1,
                               obj.column_1_moments_xdir,
                               obj.column_1_horizontal_loads_xdir)
        Mdx_column_2 == column(obj.column_2_axial_loads, x2,
                               obj.column_2_moments_xdir,
                               obj.column_2_horizontal_loads_xdir)
    IN  Round3(Mdx_column_1 + Mdx_column_2,
               CF_area_of_foundation(obj) * (fdn_loads[1] + fdn_loads[2])
                 * obj.foundation_length,
               2000)

\* The lists the query indexes: it raises IndexError on a list that is too
\* short.
CF_moments_X_sls_indexable(obj) ==
    /\ Len(obj.column_1_geometry) >= 3
    /\ Len(obj.column_2_geometry) >= 3
    /\ Len(obj.column_1_axial_loads) >= 3
    /\ Len(obj.column_2_axial_loads) >= 3
    /\ Len(obj.column_1_moments_xdir) >= 3
    /\ Len(obj.column_2_moments_xdir) >= 3
    /\ Len(obj.column_1_horizontal_loads_xdir) >= 3
    /\ Len(obj.column_2_horizontal_loads_xdir) >= 3

\* The query reads entry [2] of each geometry list.
CF_total_moments_X_direction_sls_value(obj) ==
    CF_moments_X_sls_at(obj, obj.column_1_geometry[3], obj.column_2_geometry[3])

CF_total_moments_X_direction_sls ==
    LET done == CF_query_ok(cf) /\ CF_moments_X_sls_indexable(cf)
    IN  /\ calls < MaxCalls
        /\ calls' = calls + 1
        /\ op' = "CF_total_moments_X_direction_sls"
        /\ cf' = CF_foundation_loads_stored(cf, CF_stored_foundation_args(cf),
                                            cf.consider_self_weight)
        /\ outcome' = IF done THEN "ok" ELSE "raised"
        /\ ret' = IF done
                  THEN << CF_total_moments_X_direction_sls_value(cf) >>
                  ELSE <<>>
        /\ UNCHANGED <<pad, pdes, cdes, rp, last>>

\* A combined footing in use: both columns placed, their axial loads and the
\* foundation loads set, each by one call on a constructed object.
SetUpGeometry1 == <<300, 300, 3, 5>>

SetUpGeometry2 == <<300, 300, 9, 5>>

SetUpAxial1 == <<10, 5, 0>>

SetUpAxial2 == <<15, 0, 5>>

SetUpFoundationLoads == <<300, 500, 18, 24>>

SetUpCombinedAt(obj, g1, g2) ==
    LET placed1 == CF_geometry_updated(obj, 1, g1)
        placed2 == CF_geometry_updated(placed1, 2, g2)
        loaded1 == UpdatedLoads(placed2, "axial", "column_1_axial_loads",
                                "column_1_axial_loads", SetUpAxial1)
        loaded2 == UpdatedLoads(loaded1, "axial", "column_2_axial_loads",
                                "column_2_axial_loads", SetUpAxial2)
    IN  CF_foundation_loads_stored(loaded2, SetUpFoundationLoads, TRUE)

SetUpCombined(obj) == SetUpCombinedAt(obj, SetUpGeometry1, SetUpGeometry2)

SetUpLast ==
    [InitLast EXCEPT !.column_1_geometry = SetUpGeometry1,
                     !.column_2_geometry = SetUpGeometry2,
                     !.column_1_axial_loads = SetUpAxial1,
                     !.column_2_axial_loads = SetUpAxial2,
                     !.cf_foundation_loads = SetUpFoundationLoads,
                     !.times["column_1_geometry"] = 1,
                     !.times["column_2_geometry"] = 1,
                     !.times["column_1_axial_loads"] = 1,
                     !.times["column_2_axial_loads"] = 1,
                     !.times["cf_foundation_loads"] = 1]

GeometryArgs == { <<300, 300, 3, 5>>, <<400, 300, 4, 5>>, <<300, 300, 20, 5>> }

InitGeometry ==
    /\ pad \in PadObjects
    /\ cf \in { SetUpCombined(obj) : obj \in CombinedObjects }
    /\ pdes = <<>>
    /\ cdes = <<>>
    /\ rp = <<>>
    /\ ret = <<>>
    /\ outcome = "init"
    /\ op = ""
    /\ last = SetUpLast
    /\ calls = 0

NextGeometry ==
    \/ \E g \in GeometryArgs : update_column_1_geometry(g)
    \/ \E g \in GeometryArgs : update_column_2_geometry(g)
    \/ \E args \in LoadArgs : update_column_1_axial_loads(args)
    \/ \E args \in LoadArgs : update_column_2_axial_loads(args)
    \/ CF_total_moments_X_direction_sls

SpecGeometry == InitGeometry /\ [][NextGeometry]_vars

\* C4: a total moment returned by the combined footing is the one of the
\* column positions given in the latest successful update_column_N_geometry
\* call of each column.
C4_MomentsUseLatestGeometry ==
    (op = "CF_total_moments_X_direction_sls" /\ outcome = "ok") =>
        ret[1] = CF_moments_X_sls_at(cf, last.column_1_geometry[3],
                                     last.column_2_geometry[3])

(***************************************************************************)
(* padFoundationDesign: the design object wrapping a PadFoundation.        *)
(* dx and dy are kept in half millimetres.                                 *)
(***************************************************************************)
FckRange == {16, 20, 25, 30, 32, 35, 37, 40, 45, 55}

BarDiameterRange == {8, 10, 12, 16, 20, 25, 32, 40}

\* The effective depths <<dx, dy>> of a footing thickness (mm), in half mm:
\* dx = t - cover - barX / 2 and dy = t - cover - barY / 2 - barX.
effective_depths(thickness, concrete_cover, bar_diameterX, bar_diameterY) ==
    << 2 * thickness - 2 * concrete_cover - bar_diameterX,
       2 * thickness - 2 * concrete_cover - bar_diameterY - 2 * bar_diameterX >>

\* __init__(PadFoundation, fck, fyk, concrete_cover, bar_diameterX,
\* bar_diameterY): the validation that follows the assignments.
padFoundationDesign_init_ok(a) ==
    /\ assert_input_range(a[1], FckRange)
    /\ assert_strictly_positive_number(a[2])
    /\ assert_strictly_positive_number(a[3])
    /\ assert_input_range(a[4], BarDiameterRange)
    /\ assert_input_range(a[5], BarDiameterRange)

\* The object a successful construction leaves.  dx and dy are computed here,
\* from the thickness the wrapped footing has at this moment.  The attributes
\* foundation_thickness ... concrete_unit_weight of the design object itself
\* do not exist until a query calls self.foundation_loads (NotANumber here).
padFoundationDesign_init(padobj, a) ==
    LET d == effective_depths(padobj.foundation_thickness, a[3], a[4], a[5])
    IN  [ fck |-> a[1],
          fyk |-> a[2],
          bar_diameterX |-> a[4],
          concrete_cover |-> a[3],
          bar_diameterY |-> a[5],
          dx |-> d[1],
          dy |-> d[2],
          beta |-> 0,
          foundation_thickness |-> NotANumber,
          soil_depth_abv_foundation |-> NotANumber,
          soil_unit_weight |-> NotANumber,
          concrete_unit_weight |-> NotANumber ]

\* des = padFoundationDesign(pad, ...): a construction that raises leaves the
\* design object of before.
padFoundationDesign_new(a) ==
    /\ calls < MaxCalls
    /\ calls' = calls + 1
    /\ op' = "padFoundationDesign"
    /\ pdes' = IF padFoundationDesign_init_ok(a)
               THEN padFoundationDesign_init(pad, a) ELSE pdes
    /\ outcome' = IF padFoundationDesign_init_ok(a) THEN "ok" ELSE "raised"
    /\ ret' = <<>>
    /\ UNCHANGED <<pad, cf, cdes, rp, last>>

\* column_perimeter of punching_shear_column_face, in mm
Pad_column_perimeter(obj) == 2 * (obj.column_length + obj.column_width)

\* design_punching_shear_force of punching_shear_column_face, in hundredths
\* of kN: the wind load is not part of it.
Pad_design_punching_shear_force(obj) ==
    uls_strength_factor_permanent_of(obj) * obj.permanent_axial_load
      + uls_strength_factor_imposed_of(obj) * obj.imposed_axial_load

\* vrd_max of __punching_shear, in thousandths of N/mm2:
\* round(0.5 * 0.6 (1 - fck / 250) * 0.85 fck / 1.5, 3).
Pad_vrd_max(des) == RoundDiv(17 * des.fck * (250 - des.fck), 25)

\* punching_shear_stress = force / (perimeter * average(dy, dx) * 1000) as the
\* fraction <<numerator, denominator>> in N/mm2.
Pad_punching_shear_stress(obj, des) ==
    << 40 * Pad_design_punching_shear_force(obj),
       Pad_column_perimeter(obj) * (des.dx + des.dy) >>

\* The sign of resistance / 1000 - stress[1] / stress[2], for stress[2] > 0.
CompareToStress(resistance, stress) ==
    LET q == stress[1] \div stress[2]
        r == stress[1] % stress[2]
        diff == resistance - 1000 * q
    IN  IF diff >= 1000 THEN 1
        ELSE IF diff < 0 THEN 0 - 1
        ELSE IF diff * stress[2] > 1000 * r THEN 1
        ELSE IF diff * stress[2] < 1000 * r THEN 0 - 1
        ELSE 0

\* round(stress, 3) in thousandths of N/mm2
RoundStress(stress) ==
    Round3(1000 * (stress[1] \div stress[2]), 1000 * (stress[1] % stress[2]),
           stress[2])

\* What punching_shear_column_face returns once __punching_shear has returned:
\* the verdict with the two rounded values it prints, or nothing (None) when
\* neither comparison holds.
punching_shear_column_face_result(obj, des) ==
    LET punching_shear_stress == Pad_punching_shear_stress(obj, des)
        vrd_max == Pad_vrd_max(des)
        sign == CompareToStress(vrd_max, punching_shear_stress)
    IN  IF sign > 0
        THEN << "PASS", vrd_max, RoundStress(punching_shear_stress) >>
        ELSE IF sign < 0
        THEN << "FAIL", vrd_max, RoundStress(punching_shear_stress) >>
        ELSE <<>>

PadLoadAttributes ==
    { "permanent_axial_load", "permanent_horizontal_load_xdir",
      "permanent_horizontal_load_ydir", "permanent_moment_xdir",
      "permanent_moment_ydir", "imposed_axial_load",
      "imposed_horizontal_load_xdir", "imposed_horizontal_load_ydir",
      "imposed_moment_xdir", "imposed_moment_ydir", "wind_axial_load",
      "wind_horizontal_load_xdir", "wind_horizontal_load_ydir",
      "wind_moments_xdir", "wind_moments_ydir" }

\* The calls __punching_shear makes (reinforcement, design moments, loading
\* diagrams, base pressures of the wrapped footing) return when the footing's
\* stored foundation loads pass foundation_loads' checks and its loads are
\* numbers.  The beam solver is taken to return for such a footing.
Pad_design_chain_ok(obj) ==
    /\ Pad_query_ok(obj)
    /\ \A f \in PadLoadAttributes : assert_number(obj[f])

\* punching_shear_column_face of padFoundationDesign.  The loading diagrams
\* call self.foundation_loads, which stores the footing's four values on the
\* design object itself.
punching_shear_column_face ==
    /\ calls < MaxCalls
    /\ calls' = calls + 1
    /\ op' = "punching_shear_column_face"
    /\ outcome' = IF Pad_design_chain_ok(pad) THEN "ok" ELSE "raised"
    /\ pdes' = IF Pad_design_chain_ok(pad)
               THEN Pad_foundation_loads_stored(pdes, Pad_stored_foundation_args(pad))
               ELSE pdes
    /\ ret' = IF Pad_design_chain_ok(pad)
              THEN punching_shear_column_face_result(pad, pdes) ELSE <<>>
    /\ UNCHANGED <<pad, cf, cdes, rp, last>>

(***************************************************************************)
(* The pad design in use: a footing with its foundation loads set and a    *)
(* design object constructed on it.                                        *)
(***************************************************************************)
SetUpPadFoundationLoads == <<300, 500, 18, 24>>

SetUpPadDesign == <<25, 460, 30, 20, 20>>

SetUpPad(obj) == Pad_foundation_loads_stored(obj, SetUpPadFoundationLoads)

SetUpPadLast ==
    [InitLast EXCEPT !.pad_foundation_loads = SetUpPadFoundationLoads,
                     !.times["pad_foundation_loads"] = 1]

DesignArgs ==
    { <<25, 460, 30, 20, 20>>, <<25, 460, 30, 16, 16>>, <<26, 460, 30, 20, 20>> }

DesignAxialArgs == { <<100, 675, 0>>, <<100, 50, 0>>, <<10, NotANumber, 0>> }

DesignFoundationLoadArgs ==
    { <<300, 500, 18, 24>>, <<400, 500, 18, 24>>, <<300, 500, 10, 24>> }

InitPadDesign ==
    /\ pad \in { SetUpPad(obj) : obj \in PadObjects }
    /\ pdes = padFoundationDesign_init(pad, SetUpPadDesign)
    /\ cf \in CombinedObjects
    /\ cdes = <<>>
    /\ rp = <<>>
    /\ ret = <<>>
    /\ outcome = "init"
    /\ op = ""
    /\ last = SetUpPadLast
    /\ calls = 0

NextPadDesign ==
    \/ \E a \in DesignFoundationLoadArgs : Pad_foundation_loads(a)
    \/ \E args \in DesignAxialArgs : column_axial_loads(args)
    \/ \E a \in DesignArgs : padFoundationDesign_new(a)
    \/ punching_shear_column_face

SpecPadDesign == InitPadDesign /\ [][NextPadDesign]_vars

\* C5: a punching shear check at the column face answers with the effective
\* depths dx, dy of the thickness the wrapped footing has when the check is
\* made: it returns what a design object constructed now would return.
C5_DesignUsesCurrentThickness ==
    (op = "punching_shear_column_face" /\ outcome = "ok") =>
        LET d == effective_depths(pad.foundation_thickness, pdes.concrete_cover,
                                  pdes.bar_diameterX, pdes.bar_diameterY)
        IN  ret = punching_shear_column_face_result(
                      pad, [pdes EXCEPT !.dx = d[1], !.dy = d[2]])

\* C8: a punching shear check that returns, returns a PASS or FAIL verdict
\* with the two values compared, also when resistance and stress are equal.
C8_CheckReturnsVerdict ==
    (op = "punching_shear_column_face" /\ outcome = "ok") =>
        (Len(ret) = 3 /\ ret[1] \in {"PASS", "FAIL"})

(***************************************************************************)
(* The ULS horizontal forces and moments of PadFoundation, in thousandths  *)
(* of kN and of kNm.                                                       *)
(***************************************************************************)
\* total_force_X_dir_uls and total_force_Y_dir_uls: round(total, 3) of a total
\* that is a whole number of hundredths.
Pad_total_force_X_dir_uls_value(obj) ==
    10 * (uls_strength_factor_permanent_of(obj) * obj.permanent_horizontal_load_xdir
          + obj.imposed_horizontal_load_xdir * uls_strength_factor_imposed_of(obj)
          + obj.wind_horizontal_load_xdir * uls_strength_factor_imposed_of(obj))

Pad_total_force_Y_dir_uls_value(obj) ==
    10 * (uls_strength_factor_permanent_of(obj) * obj.permanent_horizontal_load_ydir
          + obj.imposed_horizontal_load_ydir * uls_strength_factor_imposed_of(obj)
          + obj.wind_horizontal_load_ydir * uls_strength_factor_imposed_of(obj))

\* The three kinds of term of Mdx and Mdy.  With lengths in dm, thickness in
\* mm and factors in hundredths: axial load x column position is a whole
\* number of thousandths of kNm, a moment a whole number of hundredths, and
\* the weight term (area x foundation loads x length / 2, factors / 5) and
\* the horizontal force x thickness term are in 1 / 40000 thousandths.
MomentWeightTerm(obj, length) ==
    LET fdn_loads == Pad_foundation_loads_result(Pad_stored_foundation_args(obj))
    IN  (uls_strength_factor_permanent_of(obj) \div 5)
          * (Pad_area_of_foundation(obj) * (fdn_loads[1] + fdn_loads[2]) * length)

MomentThicknessTerm(obj, factored_horizontal) ==
    400 * factored_horizontal * obj.foundation_thickness

\* total_moments_X_direction_uls, lines 918-959
Pad_total_moments_X_direction_uls_value(obj) ==
    Round3(uls_strength_factor_permanent_of(obj) * obj.permanent_axial_load * obj.col_pos_xdir
             + 10 * uls_strength_factor_permanent_of(obj) * obj.permanent_moment_xdir
             + uls_strength_factor_imposed_of(obj) * obj.imposed_axial_load * obj.col_pos_xdir
             + 10 * uls_strength_factor_imposed_of(obj) * obj.imposed_moment_xdir
             + uls_strength_factor_imposed_of(obj) * obj.wind_axial_load * obj.col_pos_xdir
             + 10 * uls_strength_factor_imposed_of(obj) * obj.wind_moments_xdir,
           MomentWeightTerm(obj, obj.foundation_length)
             + MomentThicknessTerm(obj,
                 uls_strength_factor_permanent_of(obj) * obj.permanent_horizontal_load_xdir
                   + uls_strength_factor_imposed_of(obj) * obj.imposed_horizontal_load_xdir
                   + uls_strength_factor_imposed_of(obj) * obj.wind_horizontal_load_xdir),
           40000)

\* total_moments_Y_direction_uls, lines 961-1002: the imposed moment is
\* multiplied by uls_strength_factor_imposed_unfavourable (line 990).
Pad_total_moments_Y_direction_uls_value(obj) ==
    Round3(uls_strength_factor_permanent_of(obj) * obj.permanent_axial_load * obj.col_pos_ydir
             + 10 * uls_strength_factor_permanent_of(obj) * obj.permanent_moment_ydir
             + uls_strength_factor_imposed_of(obj) * obj.imposed_axial_load * obj.col_pos_ydir
             + 10 * uls_strength_factor_imposed_unfavourable_of(obj) * obj.imposed_moment_ydir
             + uls_strength_factor_imposed_of(obj) * obj.wind_axial_load * obj.col_pos_ydir
             + 10 * uls_strength_factor_imposed_of(obj) * obj.wind_moments_ydir,
           MomentWeightTerm(obj, obj.foundation_width)
             + MomentThicknessTerm(obj,
                 uls_strength_factor_permanent_of(obj) * obj.permanent_horizontal_load_ydir
                   + uls_strength_factor_imposed_of(obj) * obj.imposed_horizontal_load_ydir
                   + uls_strength_factor_imposed_of(obj) * obj.wind_horizontal_load_ydir),
           40000)

\* A query that reads the attributes in fields, and calls foundation_loads
\* first when it is a moment.
PadQuery(fields, calls_foundation_loads, value) ==
    LET done == /\ calls_foundation_loads => Pad_query_ok(pad)
                /\ \A f \in fields : assert_number(pad[f])
    IN  /\ calls < MaxCalls
        /\ calls' = calls + 1
        /\ pad' = IF calls_foundation_loads
                  THEN Pad_foundation_loads_stored(pad, Pad_stored_foundation_args(pad))
                  ELSE pad
        /\ outcome' = IF done THEN "ok" ELSE "raised"
        /\ ret' = IF done THEN << value >> ELSE <<>>
        /\ UNCHANGED <<pdes, cf, cdes, rp, last>>

Pad_total_force_X_dir_uls ==
    /\ op' = "Pad_total_force_X_dir_uls"
    /\ PadQuery({ "permanent_horizontal_load_xdir", "imposed_horizontal_load_xdir",
                  "wind_horizontal_load_xdir" }, FALSE,
                Pad_total_force_X_dir_uls_value(pad))

Pad_total_force_Y_dir_uls ==
    /\ op' = "Pad_total_force_Y_dir_uls"
    /\ PadQuery({ "permanent_horizontal_load_ydir", "imposed_horizontal_load_ydir",
                  "wind_horizontal_load_ydir" }, FALSE,
                Pad_total_force_Y_dir_uls_value(pad))

Pad_total_moments_X_direction_uls ==
    /\ op' = "Pad_total_moments_X_direction_uls"
    /\ PadQuery({ "permanent_axial_load", "imposed_axial_load", "wind_axial_load",
                  "permanent_moment_xdir", "imposed_moment_xdir", "wind_moments_xdir",
                  "permanent_horizontal_load_xdir", "imposed_horizontal_load_xdir",
                  "wind_horizontal_load_xdir" }, TRUE,
                Pad_total_moments_X_direction_uls_value(pad))

Pad_total_moments_Y_direction_uls ==
    /\ op' = "Pad_total_moments_Y_direction_uls"
    /\ PadQuery({ "permanent_axial_load", "imposed_axial_load", "wind_axial_load",
                  "permanent_moment_ydir", "imposed_moment_ydir", "wind_moments_ydir",
                  "permanent_horizontal_load_ydir", "imposed_horizontal_load_ydir",
                  "wind_horizontal_load_ydir" }, TRUE,
                Pad_total_moments_Y_direction_uls_value(pad))

NextMoments ==
    \/ \E a \in FoundationLoadArgs : Pad_foundation_loads(a)
    \/ \E args \in LoadArgs : column_axial_loads(args)
    \/ \E args \in LoadArgs : column_horizontal_loads_xdir(args)
    \/ \E args \in LoadArgs : column_horizontal_loads_ydir(args)
    \/ \E args \in LoadArgs : column_moments_xdir(args)
    \/ \E args \in LoadArgs : column_moments_ydir(args)
    \/ Pad_total_force_X_dir_uls
    \/ Pad_total_force_Y_dir_uls
    \/ Pad_total_moments_X_direction_uls
    \/ Pad_total_moments_Y_direction_uls

SpecMoments == Init /\ [][NextMoments]_vars

\* The ULS horizontal force of an axis ("xdir" or "ydir") in hundredths of kN:
\* gamma_G x permanent + gamma_Q x imposed + gamma_Q x wind.
FormulaForceUls(obj, axis) ==
    uls_strength_factor_permanent_of(obj) * obj["permanent_horizontal_load_" \o axis]
      + uls_strength_factor_imposed_of(obj) * obj["imposed_horizontal_load_" \o axis]
      + uls_strength_factor_imposed_of(obj) * obj["wind_horizontal_load_" \o axis]

\* The ULS moment about an axis in thousandths of kNm: gamma_G on the weight
\* term, the permanent axial load x position and the permanent moment, gamma_Q
\* on the imposed and the wind axial load x position and moment, and the
\* factored horizontal force x thickness.
FormulaMomentUls(obj, length, position, axis) ==
    Round3(position * (uls_strength_factor_permanent_of(obj) * obj.permanent_axial_load
                       + uls_strength_factor_imposed_of(obj) * obj.imposed_axial_load
                       + uls_strength_factor_imposed_of(obj) * obj.wind_axial_load)
             + 10 * (uls_strength_factor_permanent_of(obj) * obj["permanent_moment_" \o axis]
                     + uls_strength_factor_imposed_of(obj) * obj["imposed_moment_" \o axis]
                     + uls_strength_factor_imposed_of(obj) * obj["wind_moments_" \o axis]),
           MomentWeightTerm(obj, length)
             + MomentThicknessTerm(obj, FormulaForceUls(obj, axis)),
           40000)

\* C6: on both axes the ULS total moment and the ULS total horizontal force
\* weight the permanent components and the weight term by gamma_G and the
\* imposed and the wind components by gamma_Q.
C6_UlsWeightsByGammaGAndGammaQ ==
    outcome = "ok" =>
        /\ op = "Pad_total_force_X_dir_uls" =>
               ret[1] = 10 * FormulaForceUls(pad, "xdir")
        /\ op = "Pad_total_force_Y_dir_uls" =>
               ret[1] = 10 * FormulaForceUls(pad, "ydir")
        /\ op = "Pad_total_moments_X_direction_uls" =>
               ret[1] = FormulaMomentUls(pad, pad.foundation_length,
                                         pad.col_pos_xdir, "xdir")
        /\ op = "Pad_total_moments_Y_direction_uls" =>
               ret[1] = FormulaMomentUls(pad, pad.foundation_width,
                                         pad.col_pos_ydir, "ydir")

(***************************************************************************)
(* CombinedFootingDesign: the design object wrapping a                     *)
(* CombinedFootingAnalysis.  dx and dy are kept in half millimetres.       *)
(***************************************************************************)
\* __init__(CombinedFootingAnalysis, fck, fyk, concrete_cover, bar_diameterX,
\* bar_diameterY), lines 1885-1943.  The attributes foundation_thickness ...
\* consider_self_weight of the design object itself are absent until a check
\* calls self.foundation_loads (NotANumber and FALSE here).
CombinedFootingDesign_init(cfobj, a) ==
    LET d == effective_depths(cfobj.foundation_thickness, a[3], a[4], a[5])
    IN  [ fck |-> a[1],
          fyk |-> a[2],
          bar_diameterX |-> a[4],
          concrete_cover |-> a[3],
          bar_diameterY |-> a[5],
          dx |-> d[1],
          dy |-> d[2],
          beta |-> 100,
          foundation_thickness |-> NotANumber,
          soil_depth_abv_foundation |-> NotANumber,
          soil_unit_weight |-> NotANumber,
          concrete_unit_weight |-> NotANumber,
          consider_self_weight |-> FALSE ]

\* des = CombinedFootingDesign(cf, ...): the validation is that of
\* padFoundationDesign.
CombinedFootingDesign_new(a) ==
    /\ calls < MaxCalls
    /\ calls' = calls + 1
    /\ op' = "CombinedFootingDesign"
    /\ cdes' = IF padFoundationDesign_init_ok(a)
               THEN CombinedFootingDesign_init(cf, a) ELSE cdes
    /\ outcome' = IF padFoundationDesign_init_ok(a) THEN "ok" ELSE "raised"
    /\ ret' = <<>>
    /\ UNCHANGED <<pad, pdes, cf, rp, last>>

\* The offset of a check in quarter mm: multiple x np.average([dy, dx]).
PunchingOffset(des, multiple) == multiple * (des.dx + des.dy)

\* The offset against the footprint dimension of the same axis (mm).
OffsetExceedsFootprint(offset, geometry, i) == offset > 4 * geometry[i - 2]

\* average_depth > column_n_geometry[2] (or [3]), entries 3 and 4 here: the
\* offset against a position coordinate of the column centre (dm).
OffsetExceeds(offset, geometry, i) == offset > 400 * geometry[i]

\* average_depth < column_n_geometry[2] (or [3])
OffsetBelow(offset, geometry, i) == offset < 400 * geometry[i]

\* area = 2 (c1 + c2) average_depth + pi average_depth^2 in thousandths of
\* m2, rounded to 3 places, with 355 / 113 for pi.
PunchingArea(c1, c2, offset) ==
    RoundDiv(113 * 8 * (c1 + c2) * offset + 355 * offset * offset, 1808000)

\* What the part of a check below the guard reads: the stored foundation
\* loads must pass foundation_loads' checks, and the three entries of every
\* load list of the column and the geometry of both columns must be there
\* and be numbers.  The beam solver and the arithmetic are taken to return
\* for such a footing.
CF_design_chain_ok(obj) ==
    /\ CF_query_ok(obj)
    /\ \A f \in LoadFields : Len(obj[f]) >= 3 /\ AllNumbers(obj[f])
    /\ Len(obj.column_1_geometry) >= 4
    /\ Len(obj.column_2_geometry) >= 4

\* The body shared by col_1_punching_shear_check_1d (lines 2761-2954),
\* col_1_punching_shear_check_2d (2956-3148), col_2_punching_shear_check_1d
\* (3189-3381) and col_2_punching_shear_check_2d (3383-3575).  resistance is
\* the entry of __punching_shear() and ved_design the design stress the check
\* compares, in thousandths of N/mm2: both come out of the beam solver, roots
\* and pi, and are drawn from small sets.  printed is the second value of the
\* PASS sentence.  The check calls self.foundation_loads twice on the design
\* object: first without consider_self_weight (line 2835), then in the loading
\* diagrams behind __punching_shear with the footing's flag (lines 1970-1976),
\* which is the one that stays stored.
ColumnPunchingCheck(geometry, multiple, resistance, ved_design, printed) ==
    LET offset == PunchingOffset(cdes, multiple)
        indexable == Len(geometry) >= 4
        guarded == \/ OffsetExceeds(offset, geometry, 3)
                   \/ OffsetExceeds(offset, geometry, 4)
        evaluated == /\ indexable
                     /\ ~ guarded
                     /\ \/ OffsetBelow(offset, geometry, 3)
                        \/ OffsetBelow(offset, geometry, 4)
        raised == ~ indexable \/ (evaluated /\ ~ CF_design_chain_ok(cf))
    IN  /\ calls < MaxCalls
        /\ calls' = calls + 1
        /\ outcome' = IF raised THEN "raised" ELSE "ok"
        /\ ret' = IF raised \/ ~ evaluated THEN <<>>
                  ELSE IF resistance > ved_design
                  THEN << "PASS", resistance, printed >>
                  ELSE IF resistance < ved_design
                  THEN << "FAIL", resistance, ved_design >>
                  ELSE <<>>
        /\ cf' = IF evaluated
                 THEN CF_foundation_loads_stored(cf, CF_stored_foundation_args(cf),
                                                 cf.consider_self_weight)
                 ELSE cf
        /\ cdes' = IF evaluated /\ ~ raised
                   THEN CF_foundation_loads_stored(cdes, CF_stored_foundation_args(cf),
                                                   cf.consider_self_weight)
                   ELSE cdes
        /\ UNCHANGED <<pad, pdes, rp, last>>

\* The PASS sentence of this check prints round(area, 3) (line 2951).
col_1_punching_shear_check_1d(resistance, ved_design) ==
    /\ op' = "col_1_punching_shear_check_1d"
    /\ ColumnPunchingCheck(cf.column_1_geometry, 1, resistance, ved_design,
                           PunchingArea(cf.column_1_geometry[1],
                                        cf.column_1_geometry[2],
                                        PunchingOffset(cdes, 1)))

col_1_punching_shear_check_2d(resistance, ved_design) ==
    /\ op' = "col_1_punching_shear_check_2d"
    /\ ColumnPunchingCheck(cf.column_1_geometry, 2, resistance, ved_design, ved_design)

col_2_punching_shear_check_1d(resistance, ved_design) ==
    /\ op' = "col_2_punching_shear_check_1d"
    /\ ColumnPunchingCheck(cf.column_2_geometry, 1, resistance, ved_design, ved_design)

col_2_punching_shear_check_2d(resistance, ved_design) ==
    /\ op' = "col_2_punching_shear_check_2d"
    /\ ColumnPunchingCheck(cf.column_2_geometry, 2, resistance, ved_design, ved_design)

(***************************************************************************)
(* The combined design in use: a footing with both columns placed and      *)
(* loaded, its foundation loads set, and a design object constructed.      *)
(***************************************************************************)
SetUpWideColumn == <<400, 400, 3, 5>>

PunchingResistances == {450, 600}

DesignStresses == {300, 600}

InitCombinedDesign ==
    /\ pad \in PadObjects
    /\ pdes = <<>>
    /\ cf \in { SetUpCombinedAt(obj, g, SetUpGeometry2) :
                  obj \in CombinedObjects, g \in {SetUpGeometry1, SetUpWideColumn} }
    /\ cdes = CombinedFootingDesign_init(cf, SetUpPadDesign)
    /\ rp = <<>>
    /\ ret = <<>>
    /\ outcome = "init"
    /\ op = ""
    /\ last = [SetUpLast EXCEPT !.column_1_geometry = cf.column_1_geometry]
    /\ calls = 0

NextCombinedDesign ==
    \/ \E a \in DesignFoundationLoadArgs : CF_foundation_loads(a, TRUE)
    \/ \E a \in DesignArgs : CombinedFootingDesign_new(a)
    \/ \E r \in PunchingResistances, v \in DesignStresses :
          col_1_punching_shear_check_1d(r, v)
    \/ \E r \in PunchingResistances, v \in DesignStresses :
          col_1_punching_shear_check_2d(r, v)
    \/ \E r \in PunchingResistances, v \in DesignStresses :
          col_2_punching_shear_check_1d(r, v)
    \/ \E r \in PunchingResistances, v \in DesignStresses :
          col_2_punching_shear_check_2d(r, v)

SpecCombinedDesign == InitCombinedDesign /\ [][NextCombinedDesign]_vars

PunchingCheckNames ==
    { "col_1_punching_shear_check_1d", "col_1_punching_shear_check_2d",
      "col_2_punching_shear_check_1d", "col_2_punching_shear_check_2d" }

\* The geometry list of the column the last check was about, and its offset
\* (d or 2d) in quarter mm.
CheckedGeometry ==
    IF op \in { "col_1_punching_shear_check_1d", "col_1_punching_shear_check_2d" }
    THEN cf.column_1_geometry ELSE cf.column_2_geometry

CheckedOffset ==
    IF op \in { "col_1_punching_shear_check_1d", "col_2_punching_shear_check_1d" }
    THEN cdes.dx + cdes.dy ELSE 2 * (cdes.dx + cdes.dy)

SteelLabel(fy) ==
    IF fy <= 250 THEN "R"
    ELSE IF fy > 250 /\ fy <= 410 THEN "Y"
    ELSE IF fy > 410 /\ fy <= 460 THEN "T"
    ELSE IF fy > 460 /\ fy <= 500 THEN "H"
    ELSE ""

\* The bar label rd of a diameter, and the diameter of a label.
BarLabel(dia) ==
    CASE dia = 8 -> "8mm" [] dia = 10 -> "10mm" [] dia = 12 -> "12mm"
      [] dia = 16 -> "16mm" [] dia = 20 -> "20mm" [] dia = 25 -> "25mm"
      [] dia = 32 -> "32mm" [] dia = 40 -> "40mm"

BarDiameterOfLabel(rd) == CHOOSE dia \in BarDiameterRange : BarLabel(dia) = rd

\* The same buckets with the diameters of (628, 905] and (905, 1610] exchanged.
BarDiameter_exchanged(assteel) ==
    IF assteel <= 402 THEN 8
    ELSE IF assteel > 402 /\ assteel <= 628 THEN 10
    ELSE IF assteel > 628 /\ assteel <= 905 THEN 16
    ELSE IF assteel > 905 /\ assteel <= 1610 THEN 12
    ELSE IF assteel > 1610 /\ assteel <= 2510 THEN 20
    ELSE IF assteel > 2510 /\ assteel <= 3930 THEN 25
    ELSE IF assteel > 3930 /\ assteel <= 6430 THEN 32
    ELSE 40

\* dia of the if / elif chain, lines 203-226
BarDiameter(assteel) ==
    IF assteel <= 402 THEN 8
    ELSE IF assteel > 402 /\ assteel <= 628 THEN 10
    ELSE IF assteel > 628 /\ assteel <= 905 THEN 12
    ELSE IF assteel > 905 /\ assteel <= 1610 THEN 16
    ELSE IF assteel > 1610 /\ assteel <= 2510 THEN 20
    ELSE IF assteel > 2510 /\ assteel <= 3930 THEN 25
    ELSE IF assteel > 3930 /\ assteel <= 6430 THEN 32
    ELSE 40

\* n of lines 227-234: int(v / 25) * 25 with v = 1000 / (assteel / area) and
\* area = pi dia^2 / 4, so v / 25 = 10 pi dia^2 / assteel; then the caps.
\* pi is taken as 355 / 113.
BarSpacing(assteel, fy) ==
    LET dia == BarDiameter(assteel)
        n == FloorDiv(10 * 355 * dia * dia, 113 * assteel) * 25
    IN  IF n > 200 /\ fy <= 250 THEN 200
        ELSE IF n > 250 /\ fy > 250 THEN 250
        ELSE n

\* asteel_provided = round(area * (1000 / sv)) = round(250 pi dia^2 / n)
SteelProvided(dia, n) == RoundDiv(250 * dia * dia * 355, 113 * n)

\* The call returns unless the spacing is 0 (1000 / sv divides by zero) or the
\* label is unassigned at the return statement.
reinforcement_provision_returns(assteel, fy) ==
    /\ BarSpacing(assteel, fy) # 0
    /\ fy <= 500

reinforcement_provision_result(assteel, fy) ==
    << SteelLabel(fy), BarLabel(BarDiameter(assteel)), BarSpacing(assteel, fy),
       SteelProvided(BarDiameter(assteel), BarSpacing(assteel, fy)) >>

NoProvisionCall == [assteel |-> 0, fy |-> 0, result |-> <<>>]

reinforcement_provision(assteel, fy) ==
    LET result == IF reinforcement_provision_returns(assteel, fy)
                  THEN reinforcement_provision_result(assteel, fy) ELSE <<>>
    IN  /\ calls < MaxCalls
        /\ calls' = calls + 1
        /\ op' = "reinforcement_provision"
        /\ outcome' = IF reinforcement_provision_returns(assteel, fy)
                      THEN "ok" ELSE "raised"
        /\ ret' = result
        /\ rp' = << rp[2], [assteel |-> assteel, fy |-> fy, result |-> result] >>
        /\ UNCHANGED <<pad, pdes, cf, cdes, last>>

RequiredAreas ==
    { 100, 402, 403, 628, 629, 905, 906, 1610, 1611, 2510, 2511, 3930, 3931,
      6430, 6431, 60000 }

YieldStrengths == { 250, 460, 600 }

InitProvision ==
    /\ pad \in PadObjects
    /\ pdes = <<>>
    /\ cf \in CombinedObjects
    /\ cdes = <<>>
    /\ rp = << NoProvisionCall, NoProvisionCall >>
    /\ ret = <<>>
    /\ outcome = "init"
    /\ op = ""
    /\ last = InitLast
    /\ calls = 0

NextProvision ==
    \E assteel \in RequiredAreas, fy \in YieldStrengths :
        reinforcement_provision(assteel, fy)

SpecProvision == InitProvision /\ [][NextProvision]_vars

\* Two calls that returned, with one fy and the earlier area not above the
\* later one.
ComparableProvisions(first, second) ==
    /\ first.result # <<>>
    /\ second.result # <<>>
    /\ first.fy = second.fy
    /\ first.assteel <= second.assteel

\* C9, as claimed: for a fixed fy and required areas a1 <= a2, neither the bar
\* diameter nor the provided area of a2 is smaller than that of a1.
C9_ProvisionMonotone ==
    \A i, j \in {1, 2} :
        ComparableProvisions(rp[i], rp[j]) =>
            /\ BarDiameterOfLabel(rp[i].result[2]) <= BarDiameterOfLabel(rp[j].result[2])
            /\ rp[i].result[4] <= rp[j].result[4]

\* C9, amended: the bar diameter of a2 is not smaller than that of a1, and
\* the provided area of a2 is not smaller than that of a1 when both areas
\* select the same bar diameter.
C9_DiameterMonotoneAreaWithinDiameter ==
    \A i, j \in {1, 2} :
        ComparableProvisions(rp[i], rp[j]) =>
            /\ BarDiameterOfLabel(rp[i].result[2]) <= BarDiameterOfLabel(rp[j].result[2])
            /\ rp[i].result[2] = rp[j].result[2] =>
                   rp[i].result[4] <= rp[j].result[4]

\* Two calls with one fy whose larger area selects a larger bar and is
\* provided with less steel.
C9_Witness ==
    /\ ComparableProvisions(rp[1], rp[2])
    /\ BarDiameterOfLabel(rp[1].result[2]) < BarDiameterOfLabel(rp[2].result[2])
    /\ rp[1].result[4] > rp[2].result[4]

(***************************************************************************)
(* PadFoundation.minimum_area_required, lines 618-676.  The candidate      *)
(* sides x = y of np.arange(1, 20.5, 0.05) are k / 20 for k = 20 .. 409.   *)
(***************************************************************************)
GridFirst == 20

GridLast == 409

\* <<floor(1000 r / d), remainder>> for 0 <= r < d, one decimal at a time
MilliQuotient(r, d) ==
    LET a == (10 * r) \div d
        ra == (10 * r) % d
        b == (10 * ra) \div d
        rb == (10 * ra) % d
        c == (10 * rb) \div d
        rc == (10 * rb) % d
    IN  << 100 * a + 10 * b + c, rc >>

\* The sums the loop adds up: the axial loads (kN), the foundation loads
\* (thousandths of kN/m2) and the moments plus horizontal loads x thickness
\* of both axes (thousandths of kNm).
MinArea_axial(obj) ==
    obj.permanent_axial_load + obj.imposed_axial_load + obj.wind_axial_load

MinArea_fdn_loads(obj) ==
    LET fdn_loads == Pad_foundation_loads_result(Pad_stored_foundation_args(obj))
    IN  fdn_loads[1] + fdn_loads[2]

MinArea_moments(obj) ==
    1000 * (obj.permanent_moment_xdir + obj.imposed_moment_xdir
            + obj.wind_moments_xdir + obj.permanent_moment_ydir
            + obj.imposed_moment_ydir + obj.wind_moments_ydir)
      + obj.foundation_thickness
          * (obj.permanent_horizontal_load_xdir + obj.imposed_horizontal_load_xdir
             + obj.wind_horizontal_load_xdir + obj.permanent_horizontal_load_ydir
             + obj.imposed_horizontal_load_ydir + obj.wind_horizontal_load_ydir)

\* lhs of candidate k as <<whole thousandths, remainder>>: with x = y, ex and
\* ey are the moments over the total force, and
\* lhs = fdn_loads + axial / x^2 + 6 moments / x^3
\*     = fdn_loads + (400 k axial + 48 moments) / k^3.
MinArea_lhs(obj, k) ==
    LET n == 400 * MinArea_axial(obj) * k + 48 * MinArea_moments(obj)
        d == k * k * k
        mq == MilliQuotient(n % d, d)
    IN  << MinArea_fdn_loads(obj) + 1000 * (n \div d) + mq[1], mq[2] >>

\* round(lhs)
MinArea_round_lhs(obj, k) ==
    LET lhs == MinArea_lhs(obj, k)
        i == lhs[1] \div 1000
        m == lhs[1] % 1000
    IN  IF m < 500 THEN i
        ELSE IF m > 500 \/ lhs[2] > 0 THEN i + 1
        ELSE IF i % 2 = 0 THEN i ELSE i + 1

\* round(lhs) in range(lower, self.soil_bearing_capacity)
MinArea_breaks(obj, k) ==
    /\ MinArea_round_lhs(obj, k) >= obj.soil_bearing_capacity - 10
    /\ MinArea_round_lhs(obj, k) < obj.soil_bearing_capacity

\* The candidate x and y are left at when the loop ends: the first one that
\* breaks, or the last of the grid when none does.
MinArea_candidate(obj) ==
    LET hits == { k \in GridFirst..GridLast : MinArea_breaks(obj, k) }
    IN  IF hits = {} THEN GridLast
        ELSE CHOOSE k \in hits : \A h \in hits : k <= h

\* round(x * y, 3) in thousandths of m2.  x * y = k^2 / 400 lies halfway
\* between two thousandths when k is odd; the float product can then fall on
\* either side.
MinArea_rounded_area(k) == { (5 * k * k) \div 2, (5 * k * k + 1) \div 2 }

\* The call returns when foundation_loads accepts the stored values, the loads
\* are numbers and the total force is not zero (round() of nan or inf raises).
MinArea_returns(obj) ==
    /\ Pad_design_chain_ok(obj)
    /\ MinArea_axial(obj) + MinArea_fdn_loads(obj) # 0

Pad_minimum_area_required ==
    /\ calls < MaxCalls
    /\ calls' = calls + 1
    /\ op' = "Pad_minimum_area_required"
    /\ pad' = Pad_foundation_loads_stored(pad, Pad_stored_foundation_args(pad))
    /\ outcome' = IF MinArea_returns(pad) THEN "ok" ELSE "raised"
    /\ IF MinArea_returns(pad)
       THEN \E area \in MinArea_rounded_area(MinArea_candidate(pad)) :
               ret' = << area >>
       ELSE ret' = <<>>
    /\ UNCHANGED <<pdes, cf, cdes, rp, last>>

MinAreaAxialArgs == { <<10, 5, 0>>, <<600, 400, 0>>, <<10, NotANumber, 0>> }

NextMinArea ==
    \/ \E a \in FoundationLoadArgs : Pad_foundation_loads(a)
    \/ \E args \in MinAreaAxialArgs : column_axial_loads(args)
    \/ \E args \in LoadArgs : column_moments_xdir(args)
    \/ \E args \in LoadArgs : column_horizontal_loads_xdir(args)
    \/ Pad_minimum_area_required

SpecMinArea == Init /\ [][NextMinArea]_vars

\* The pressure of candidate k lies in [q - 10, q).
PressureInWindow(obj, k) ==
    /\ MinArea_lhs(obj, k)[1] >= 1000 * (obj.soil_bearing_capacity - 10)
    /\ MinArea_lhs(obj, k)[1] < 1000 * obj.soil_bearing_capacity

\* C10: an area returned by minimum_area_required is the area of a grid
\* candidate whose pressure lies in [q - 10, q); when no candidate qualifies
\* no area is returned.
C10_AreaOnlyOfQualifyingCandidate ==
    (op = "Pad_minimum_area_required" /\ outcome = "ok") =>
        \E k \in GridFirst..GridLast :
            /\ ret[1] \in MinArea_rounded_area(k)
            /\ PressureInWindow(pad, k)

(***************************************************************************)
(* Required steel area of the pad design: concretedesignfunc.minimum_steel *)
(* and padFoundationDesign.area_of_steel_reqd_X_dir / _Y_dir.  Areas are   *)
(* in mm2, widths in dm, effective depths in half-mm.                      *)
(***************************************************************************)

\* floor and remainder of a * n / den, by long division over the decimal
\* digits of n, for products beyond the integer range
LongDivision(a, n, den) ==
    LET RECURSIVE D(_)
        D(m) == IF m = 0 THEN <<0, 0>>
                ELSE LET p == D(m \div 10)
                         t == p[2] * 10 + a * (m % 10)
                     IN  <<p[1] * 10 + t \div den, t % den>>
    IN  D(n)

\* fck ** (2 / 3) of minimum_steel, line 109, in ten-thousandths
FckTwoThirds(fck) ==
    CASE fck = 16 -> 63496
      [] fck = 20 -> 73681
      [] fck = 25 -> 85499
      [] fck = 30 -> 96549
      [] fck = 32 -> 100794
      [] fck = 35 -> 106999
      [] fck = 37 -> 111037
      [] fck = 40 -> 116961
      [] fck = 45 -> 126515
      [] fck = 55 -> 144624

\* minimum_steel, lines 88-112: round(max(as_min, limiting_as), 0) with
\* as_min = 0.078 fck^(2/3) / fyk * bt * d and limiting_as = 0.0013 * bt * d;
\* bt in dm and d in half-mm make as_min = 39 c bt d / (10^5 fyk) and
\* limiting_as = 13 bt d / 200
minimum_steel(fck, fyk, bt, d) ==
    LET as_min == LongDivision(39 * bt * d, FckTwoThirds(fck), 100000 * fyk)
    IN  IF 3 * FckTwoThirds(fck) >= 500 * fyk
        THEN Round3(as_min[1], as_min[2], 100000 * fyk)
        ELSE RoundDiv(13 * bt * d, 200)

\* the required area without the max() of lines 1562-1568
area_of_steel_reqd_without_minimum(des, calculated, width, depth) ==
    RoundDiv(10 * calculated, width)

\* area_of_steel_reqd_X_dir, lines 1559-1571 (and _Y_dir, 1622-1634): the
\* larger of the bending_reinforcement area and minimum_steel, divided by the
\* footing width in metres and rounded to a whole mm2/m
area_of_steel_reqd(des, calculated, width, depth) ==
    RoundDiv(10 * Max2(calculated, minimum_steel(des.fck, des.fyk, width, depth)),
             width)

\* One call of a required-area method.  `calculated` is what
\* bending_reinforcement returns for the design moment the beam solver
\* reports at the column face; the loading diagram behind that moment stores
\* the footing's foundation loads on the design object (lines 1321-1326).
SteelAreaCall(calculated, width, depth) ==
    /\ calls < MaxCalls
    /\ calls' = calls + 1
    /\ outcome' = IF Pad_design_chain_ok(pad) THEN "ok" ELSE "raised"
    /\ pdes' = IF Pad_design_chain_ok(pad)
               THEN Pad_foundation_loads_stored(pdes, Pad_stored_foundation_args(pad))
               ELSE pdes
    /\ ret' = IF Pad_design_chain_ok(pad)
              THEN <<area_of_steel_reqd(pdes, calculated, width, depth)>>
              ELSE <<>>
    /\ UNCHANGED <<pad, cf, cdes, rp, last>>

area_of_steel_reqd_X_dir(calculated) ==
    /\ op' = "area_of_steel_reqd_X_dir"
    /\ SteelAreaCall(calculated, pad.foundation_width, pdes.dx)

area_of_steel_reqd_Y_dir(calculated) ==
    /\ op' = "area_of_steel_reqd_Y_dir"
    /\ SteelAreaCall(calculated, pad.foundation_length, pdes.dy)

SteelDesignArgs ==
    { <<25, 460, 30, 20, 20>>, <<16, 500, 30, 12, 12>>, <<30, 500, 30, 16, 16>> }

\* areas bending_reinforcement returns: for a hogging moment, for no moment,
\* below, around and above the minimum steel of the sections in use
BendingAreas == { 0 - 200, 0, 377, 400, 1500 }

NextSteel ==
    \/ \E a \in DesignFoundationLoadArgs : Pad_foundation_loads(a)
    \/ \E a \in SteelDesignArgs : padFoundationDesign_new(a)
    \/ \E calculated \in BendingAreas : area_of_steel_reqd_X_dir(calculated)
    \/ \E calculated \in BendingAreas : area_of_steel_reqd_Y_dir(calculated)

SpecSteel == InitPadDesign /\ [][NextSteel]_vars

\* the minimum-steel rule of the section, per metre of footing width
MinimumSteelPerMetre(des, width, depth) ==
    RoundDiv(10 * minimum_steel(des.fck, des.fyk, width, depth), width)

SteelAreaRespectsMinimum(calculated, width, depth) ==
    outcome' = "ok" =>
        /\ ret'[1] >= MinimumSteelPerMetre(pdes, width, depth)
        /\ calculated < minimum_steel(pdes.fck, pdes.fyk, width, depth)
              => ret'[1] = MinimumSteelPerMetre(pdes, width, depth)

\* C11: whatever area the bending formula gives, the required steel area
\* returned by area_of_steel_reqd_X_dir and area_of_steel_reqd_Y_dir is never
\* below the minimum-steel rule per metre width, and equals it whenever the
\* bending formula gives a smaller area.
C11_RequiredAreaNeverBelowMinimumSteel ==
    [][\A calculated \in BendingAreas :
          /\ area_of_steel_reqd_X_dir(calculated)
                => SteelAreaRespectsMinimum(calculated, pad.foundation_width, pdes.dx)
          /\ area_of_steel_reqd_Y_dir(calculated)
                => SteelAreaRespectsMinimum(calculated, pad.foundation_length, pdes.dy)]_vars

\* the minimum steel governs one returned area and the bending area another
C11_Witness ==
    /\ op = "area_of_steel_reqd_Y_dir"
    /\ outcome = "ok"
    /\ pdes.fck = 16
    /\ ret = <<MinimumSteelPerMetre(pdes, pad.foundation_length, pdes.dy)>>


\* C12: every call of reinforcement_provision with a required area above
\* zero returns a bar spacing that is a positive multiple of 25 mm, at most
\* 200 mm when fyk <= 250 and at most 250 mm otherwise, and a provided area
\* that is not below the required area.
C12_ProvisionCoversRequiredArea ==
    \A i \in {1, 2} :
        rp[i].assteel > 0 =>
            /\ rp[i].result # <<>>
            /\ rp[i].result[3] > 0
            /\ rp[i].result[3] % 25 = 0
            /\ rp[i].result[3] <= (IF rp[i].fy <= 250 THEN 200 ELSE 250)
            /\ rp[i].result[4] >= rp[i].assteel


(***************************************************************************)
(* The SLS force totals of the pad and of the combined footing.            *)
(***************************************************************************)
\* total_force_X_dir_sls of PadFoundation, lines 470-484, in kN
Pad_total_force_X_dir_sls_value(obj) ==
    obj.permanent_horizontal_load_xdir + obj.imposed_horizontal_load_xdir
      + obj.wind_horizontal_load_xdir

\* total_force_Y_dir_sls of PadFoundation, lines 486-500, in kN
Pad_total_force_Y_dir_sls_value(obj) ==
    obj.permanent_horizontal_load_ydir + obj.imposed_horizontal_load_ydir
      + obj.wind_horizontal_load_ydir

\* the vertical total with the self weight of the footing only
Pad_total_force_Z_dir_sls_without_surcharge(obj) ==
    LET fdn_loads == Pad_foundation_loads_result(Pad_stored_foundation_args(obj))
    IN  100000 * (obj.permanent_axial_load + obj.imposed_axial_load
                  + obj.wind_axial_load)
          + Pad_area_of_foundation(obj) * fdn_loads[1]

\* total_force_Z_dir_sls of PadFoundation, lines 502-523, in 10^-5 kN (the
\* area is in hundredths of m2, the foundation loads in thousandths of
\* kN/m2).  It is not rounded.
Pad_total_force_Z_dir_sls_value(obj) ==
    LET fdn_loads == Pad_foundation_loads_result(Pad_stored_foundation_args(obj))
    IN  100000 * (obj.permanent_axial_load + obj.imposed_axial_load
                  + obj.wind_axial_load)
          + Pad_area_of_foundation(obj) * (fdn_loads[1] + fdn_loads[2])

Pad_total_force_X_dir_sls ==
    /\ op' = "Pad_total_force_X_dir_sls"
    /\ PadQuery({ "permanent_horizontal_load_xdir", "imposed_horizontal_load_xdir",
                  "wind_horizontal_load_xdir" }, FALSE,
                Pad_total_force_X_dir_sls_value(pad))

Pad_total_force_Y_dir_sls ==
    /\ op' = "Pad_total_force_Y_dir_sls"
    /\ PadQuery({ "permanent_horizontal_load_ydir", "imposed_horizontal_load_ydir",
                  "wind_horizontal_load_ydir" }, FALSE,
                Pad_total_force_Y_dir_sls_value(pad))

Pad_total_force_Z_dir_sls ==
    /\ op' = "Pad_total_force_Z_dir_sls"
    /\ PadQuery({ "permanent_axial_load", "imposed_axial_load", "wind_axial_load" },
                TRUE, Pad_total_force_Z_dir_sls_value(pad))

\* total_force_X_dir_sls of CombinedFootingAnalysis, lines 821-833, in kN: the
\* sum over the two columns' lists joined
CF_total_force_X_dir_sls_value(obj) ==
    SumSeq(obj.column_1_horizontal_loads_xdir \o obj.column_2_horizontal_loads_xdir)

\* total_force_Y_dir_sls of CombinedFootingAnalysis, lines 835-847, in kN
CF_total_force_Y_dir_sls_value(obj) ==
    SumSeq(obj.column_1_horizontal_loads_ydir \o obj.column_2_horizontal_loads_ydir)

\* total_force_Z_dir_sls of CombinedFootingAnalysis, lines 849-869, in
\* 10^-5 kN.  It is not rounded.
CF_total_force_Z_dir_sls_value(obj) ==
    LET fdn_loads == CF_foundation_loads_result(CF_stored_foundation_args(obj),
                                                obj.consider_self_weight)
    IN  100000 * SumSeq(obj.column_1_axial_loads \o obj.column_2_axial_loads)
          + CF_area_of_foundation(obj) * (fdn_loads[1] + fdn_loads[2])

\* A force query that calls foundation_loads without the stored flag, which
\* then takes its default.
CFQuery_default_self_weight(calls_foundation_loads, value) ==
    LET done == calls_foundation_loads => CF_query_ok(cf)
    IN  /\ calls < MaxCalls
        /\ calls' = calls + 1
        /\ cf' = IF calls_foundation_loads
                 THEN CF_foundation_loads_stored(cf, CF_stored_foundation_args(cf),
                                                 TRUE)
                 ELSE cf
        /\ outcome' = IF done THEN "ok" ELSE "raised"
        /\ ret' = IF done THEN << value >> ELSE <<>>
        /\ UNCHANGED <<pad, pdes, cdes, rp, last>>

\* One force query of the combined footing; the vertical one calls
\* foundation_loads with the stored values first.
CFQuery(calls_foundation_loads, value) ==
    LET done == calls_foundation_loads => CF_query_ok(cf)
    IN  /\ calls < MaxCalls
        /\ calls' = calls + 1
        /\ cf' = IF calls_foundation_loads
                 THEN CF_foundation_loads_stored(cf, CF_stored_foundation_args(cf),
                                                 cf.consider_self_weight)
                 ELSE cf
        /\ outcome' = IF done THEN "ok" ELSE "raised"
        /\ ret' = IF done THEN << value >> ELSE <<>>
        /\ UNCHANGED <<pad, pdes, cdes, rp, last>>

CF_total_force_X_dir_sls ==
    /\ op' = "CF_total_force_X_dir_sls"
    /\ CFQuery(FALSE, CF_total_force_X_dir_sls_value(cf))

CF_total_force_Y_dir_sls ==
    /\ op' = "CF_total_force_Y_dir_sls"
    /\ CFQuery(FALSE, CF_total_force_Y_dir_sls_value(cf))

CF_total_force_Z_dir_sls ==
    /\ op' = "CF_total_force_Z_dir_sls"
    /\ CFQuery(TRUE, CF_total_force_Z_dir_sls_value(cf))


\* the arguments of the setters: accepted ones, and rejected ones that are
\* stored all the same
SlsLoadArgs == { <<15, 0, 5>>, <<10, NotANumber, 0>> }

SlsFoundationLoadArgs ==
    { <<300, 500, 18, 24>>, <<550, 0, 18, 24>>, <<300, 500, 10, 24>> }

NextSls ==
    \/ \E a \in SlsFoundationLoadArgs : Pad_foundation_loads(a)
    \/ \E args \in SlsLoadArgs : column_axial_loads(args)
    \/ \E args \in SlsLoadArgs : column_horizontal_loads_xdir(args)
    \/ \E args \in SlsLoadArgs : column_horizontal_loads_ydir(args)
    \/ Pad_total_force_X_dir_sls
    \/ Pad_total_force_Y_dir_sls
    \/ Pad_total_force_Z_dir_sls
    \/ \E a \in SlsFoundationLoadArgs, csw \in BOOLEAN : CF_foundation_loads(a, csw)
    \/ \E args \in SlsLoadArgs : update_column_1_axial_loads(args)
    \/ \E args \in SlsLoadArgs : update_column_2_axial_loads(args)
    \/ \E args \in SlsLoadArgs : update_column_1_horizontal_loads_xdir(args)
    \/ \E args \in SlsLoadArgs : update_column_2_horizontal_loads_xdir(args)
    \/ \E args \in SlsLoadArgs : update_column_1_horizontal_loads_ydir(args)
    \/ \E args \in SlsLoadArgs : update_column_2_horizontal_loads_ydir(args)
    \/ CF_total_force_X_dir_sls
    \/ CF_total_force_Y_dir_sls
    \/ CF_total_force_Z_dir_sls

SpecSls == Init /\ [][NextSls]_vars

\* (self-weight pressure + surcharge pressure) x footing area in 10^-5 kN, for
\* fl = <<thickness, soil depth, soil unit weight, concrete unit weight>>
FormulaWeightSls(length, width, fl, self_weight) ==
    length * width * ((IF self_weight THEN fl[1] * fl[4] ELSE 0) + fl[2] * fl[3])

\* C16: the SLS total of each axis is the unweighted sum of the permanent,
\* imposed and wind components of the axis' load vector over all columns,
\* taken from the last successful setter calls; the Z total adds (self-weight
\* pressure + surcharge pressure) x footing area.
C16_SlsTotalsAreUnweightedSums ==
    /\ (op = "Pad_total_force_X_dir_sls" /\ outcome = "ok") =>
          ret[1] = SumSeq(last.column_horizontal_loads_xdir)
    /\ (op = "Pad_total_force_Y_dir_sls" /\ outcome = "ok") =>
          ret[1] = SumSeq(last.column_horizontal_loads_ydir)
    /\ (op = "Pad_total_force_Z_dir_sls" /\ outcome = "ok") =>
          ret[1] = 100000 * SumSeq(last.column_axial_loads)
                     + FormulaWeightSls(pad.foundation_length, pad.foundation_width,
                                        last.pad_foundation_loads, TRUE)
    /\ (op = "CF_total_force_X_dir_sls" /\ outcome = "ok") =>
          ret[1] = SumSeq(last.column_1_horizontal_loads_xdir)
                     + SumSeq(last.column_2_horizontal_loads_xdir)
    /\ (op = "CF_total_force_Y_dir_sls" /\ outcome = "ok") =>
          ret[1] = SumSeq(last.column_1_horizontal_loads_ydir)
                     + SumSeq(last.column_2_horizontal_loads_ydir)
    /\ (op = "CF_total_force_Z_dir_sls" /\ outcome = "ok") =>
          ret[1] = 100000 * (SumSeq(last.column_1_axial_loads)
                              + SumSeq(last.column_2_axial_loads))
                     + FormulaWeightSls(cf.foundation_length, cf.foundation_width,
                                        last.cf_foundation_loads,
                                        last.cf_consider_self_weight)

\* the vertical SLS total of the pad is returned after the foundation loads
\* and the axial loads were set
C16_Witness ==
    /\ op = "Pad_total_force_Z_dir_sls"
    /\ outcome = "ok"
    /\ last.times["pad_foundation_loads"] >= 1
    /\ last.times["column_axial_loads"] >= 1
    /\ ret[1] > 100000 * SumSeq(last.column_axial_loads)


ScaledQuotient(a, n, den) ==
    LET d == LongDivision(Abs(a), n, den)
        v == Round3(d[1], d[2], den)
    IN  IF a >= 0 THEN v ELSE 0 - v

\* round(scale * (moment / force) - half_length), the body of the four
\* eccentricity methods (lines 590-616 and 1004-1030), for force > 0
eccentricity(moment, force, scale, half_length) ==
    LET d == LongDivision(Abs(moment), scale, force)
    IN  IF moment >= 0
        THEN Round3(d[1] - half_length, d[2], force)
        ELSE 0 - Round3(d[1] + half_length, d[2], force)

\* the corner pressures with the sign pairs of q2 and q3 exchanged
base_pressures_q2_q3_exchanged(force, ex, ey, length, width, one, unit) ==
    LET area == length * width
        q(sx, sy) == ScaledQuotient(one * area + sx * 6 * ex * width
                                      + sy * 6 * ey * length,
                                    force, unit * area * area)
    IN  << q(0 - 1, 0 - 1), q(1, 0 - 1), q(0 - 1, 1), q(1, 1) >>

\* q1..q4 of pad_base_pressures_sls (lines 678-778) and pad_base_pressures_uls
\* (lines 1032-1132), in thousandths of kN/m2:
\*   q = force * (1 -/+ 6 ex / (length * 1000) -/+ 6 ey / (width * 1000)) / area
\* rounded to 3 places.  `one` is the eccentricity unit per dm over 6 and
\* `unit` turns the force unit over hundredths of m2 into thousandths.
base_pressures(force, ex, ey, length, width, one, unit) ==
    LET area == length * width
        q(sx, sy) == ScaledQuotient(one * area + sx * 6 * ex * width
                                      + sy * 6 * ey * length,
                                    force, unit * area * area)
    IN  << q(0 - 1, 0 - 1), q(0 - 1, 1), q(1, 0 - 1), q(1, 1) >>

\* total_moments_X_direction_sls, lines 525-556, in thousandths of kNm
Pad_total_moments_X_direction_sls_value(obj) ==
    LET fdn_loads == Pad_foundation_loads_result(Pad_stored_foundation_args(obj))
    IN  Round3(100 * obj.col_pos_xdir
                   * (obj.permanent_axial_load + obj.imposed_axial_load
                      + obj.wind_axial_load)
                 + 1000 * (obj.permanent_moment_xdir + obj.imposed_moment_xdir
                           + obj.wind_moments_xdir)
                 + obj.foundation_thickness
                     * (obj.permanent_horizontal_load_xdir
                        + obj.imposed_horizontal_load_xdir
                        + obj.wind_horizontal_load_xdir),
               Pad_area_of_foundation(obj) * (fdn_loads[1] + fdn_loads[2])
                 * obj.foundation_length,
               2000)

\* total_moments_Y_direction_sls, lines 558-588, in thousandths of kNm
Pad_total_moments_Y_direction_sls_value(obj) ==
    LET fdn_loads == Pad_foundation_loads_result(Pad_stored_foundation_args(obj))
    IN  Round3(100 * obj.col_pos_ydir
                   * (obj.permanent_axial_load + obj.imposed_axial_load
                      + obj.wind_axial_load)
                 + 1000 * (obj.permanent_moment_ydir + obj.imposed_moment_ydir
                           + obj.wind_moments_ydir)
                 + obj.foundation_thickness
                     * (obj.permanent_horizontal_load_ydir
                        + obj.imposed_horizontal_load_ydir
                        + obj.wind_horizontal_load_ydir),
               Pad_area_of_foundation(obj) * (fdn_loads[1] + fdn_loads[2])
                 * obj.foundation_width,
               2000)

\* eccentricity_X_direction_sls, lines 590-602, a whole number of mm
Pad_eccentricity_X_direction_sls_value(obj) ==
    eccentricity(Pad_total_moments_X_direction_sls_value(obj),
                 Pad_total_force_Z_dir_sls_value(obj), 100000,
                 50 * obj.foundation_length)

\* eccentricity_Y_direction_sls, lines 604-616, a whole number of mm
Pad_eccentricity_Y_direction_sls_value(obj) ==
    eccentricity(Pad_total_moments_Y_direction_sls_value(obj),
                 Pad_total_force_Z_dir_sls_value(obj), 100000,
                 50 * obj.foundation_width)

\* eccentricity_X_direction_uls, lines 1004-1016, in thousandths of mm
Pad_eccentricity_X_direction_uls_value(obj) ==
    eccentricity(Pad_total_moments_X_direction_uls_value(obj),
                 Pad_total_force_Z_dir_uls_value(obj), 1000000,
                 50000 * obj.foundation_length)

\* eccentricity_Y_direction_uls, lines 1018-1030, in thousandths of mm
Pad_eccentricity_Y_direction_uls_value(obj) ==
    eccentricity(Pad_total_moments_Y_direction_uls_value(obj),
                 Pad_total_force_Z_dir_uls_value(obj), 1000000,
                 50000 * obj.foundation_width)

\* the SLS corner pressures computed from the ULS vertical total
Pad_pad_base_pressures_sls_of_uls_force(obj) ==
    base_pressures(100 * Pad_total_force_Z_dir_uls_value(obj),
                   Pad_eccentricity_X_direction_sls_value(obj),
                   Pad_eccentricity_Y_direction_sls_value(obj),
                   obj.foundation_length, obj.foundation_width, 100, 100)

\* pad_base_pressures_sls, lines 678-778
Pad_pad_base_pressures_sls_value(obj) ==
    base_pressures(Pad_total_force_Z_dir_sls_value(obj),
                   Pad_eccentricity_X_direction_sls_value(obj),
                   Pad_eccentricity_Y_direction_sls_value(obj),
                   obj.foundation_length, obj.foundation_width, 100, 100)

\* pad_base_pressures_uls, lines 1032-1132
Pad_pad_base_pressures_uls_value(obj) ==
    base_pressures(Pad_total_force_Z_dir_uls_value(obj),
                   Pad_eccentricity_X_direction_uls_value(obj),
                   Pad_eccentricity_Y_direction_uls_value(obj),
                   obj.foundation_length, obj.foundation_width, 100000, 1000)


\* One pressure query of the pad: it calls foundation_loads with the stored
\* values, adds every load attribute and divides by the vertical total.
PadPressureQuery(value) ==
    LET done == /\ Pad_design_chain_ok(pad)
                /\ Pad_total_force_Z_dir_sls_value(pad) # 0
    IN  /\ calls < MaxCalls
        /\ calls' = calls + 1
        /\ pad' = Pad_foundation_loads_stored(pad, Pad_stored_foundation_args(pad))
        /\ outcome' = IF done THEN "ok" ELSE "raised"
        /\ ret' = IF done THEN value ELSE <<>>
        /\ UNCHANGED <<pdes, cf, cdes, rp, last>>

Pad_pad_base_pressures_sls ==
    /\ op' = "Pad_pad_base_pressures_sls"
    /\ PadPressureQuery(Pad_pad_base_pressures_sls_value(pad))

Pad_pad_base_pressures_uls ==
    /\ op' = "Pad_pad_base_pressures_uls"
    /\ PadPressureQuery(Pad_pad_base_pressures_uls_value(pad))

\* the largest and the smallest entry of a tuple of pressures
MaxOf(q) == CHOOSE v \in { q[i] : i \in 1..Len(q) } : \A i \in 1..Len(q) : q[i] <= v

MinOf(q) == CHOOSE v \in { q[i] : i \in 1..Len(q) } : \A i \in 1..Len(q) : v <= q[i]

\* the check with the comparison of the maximum left out
bearing_pressure_status_by_minimum(q, soil_bearing_capacity) ==
    IF MinOf(q) <= 1000 * soil_bearing_capacity THEN "PASS" ELSE "Fail"

\* bearing_pressure_check_sls, lines 780-802: the statement it prints, by its
\* first word (the method itself returns what print returns, None)
bearing_pressure_status(q, soil_bearing_capacity) ==
    IF /\ MinOf(q) <= 1000 * soil_bearing_capacity
       /\ MaxOf(q) <= 1000 * soil_bearing_capacity
    THEN "PASS" ELSE "Fail"

Pad_bearing_pressure_check_sls ==
    /\ op' = "Pad_bearing_pressure_check_sls"
    /\ PadPressureQuery(<< bearing_pressure_status(
                              Pad_pad_base_pressures_sls_value(pad),
                              pad.soil_bearing_capacity) >>)

\* A pad in use: the foundation loads and the axial loads set, each by one
\* call on a constructed object.
SetUpPressureAxial == <<100, 50, 0>>

SetUpPressurePad(obj) ==
    PadLoadsAssigned(SetUpPad(obj), "permanent_axial_load", "imposed_axial_load",
                     "wind_axial_load", SetUpPressureAxial)

PressureFoundationLoadArgs == { <<550, 0, 18, 24>>, <<400, 500, 18, 24>> }

PressureAxialArgs == { <<200, 100, 0>>, <<11, 5, 0>> }

PressureMomentArgs == { <<10, 5, 0>>, <<40, 30, 0>> }

PressureHorizontalArgs == { <<10, 5, 0>> }

CombinedMomentArgs == { <<10, 5, 0>>, <<40, 20, 0>> }


\* total_moments_Y_direction_sls of CombinedFootingAnalysis, lines 921-968, in
\* thousandths of kNm: it reads entry [3] of each geometry list
CF_total_moments_Y_direction_sls_value(obj) ==
    LET fdn_loads == CF_foundation_loads_result(CF_stored_foundation_args(obj),
                                                obj.consider_self_weight)
        column(axial, y, moments, horizontal) ==
            SumSeq([ i \in 1..3 |->
                       100 * axial[i] * y + 1000 * moments[i]
                       + horizontal[i] * obj.foundation_thickness ])
        Mdy_column_1 == column(obj.column_1_axial_loads, obj.column_1_geometry[4],
                               obj.column_1_moments_ydir,
                               obj.column_1_horizontal_loads_ydir)
        Mdy_column_2 == column(obj.column_2_axial_loads, obj.column_2_geometry[4],
                               obj.column_2_moments_ydir,
                               obj.column_2_horizontal_loads_ydir)
    IN  Round3(Mdy_column_1 + Mdy_column_2,
               CF_area_of_foundation(obj) * (fdn_loads[1] + fdn_loads[2])
                 * obj.foundation_width,
               2000)

CF_moments_Y_sls_indexable(obj) ==
    /\ Len(obj.column_1_geometry) >= 4
    /\ Len(obj.column_2_geometry) >= 4
    /\ Len(obj.column_1_axial_loads) >= 3
    /\ Len(obj.column_2_axial_loads) >= 3
    /\ Len(obj.column_1_moments_ydir) >= 3
    /\ Len(obj.column_2_moments_ydir) >= 3
    /\ Len(obj.column_1_horizontal_loads_ydir) >= 3
    /\ Len(obj.column_2_horizontal_loads_ydir) >= 3

\* eccentricity_X_direction_sls of CombinedFootingAnalysis, lines 970-983
CF_eccentricity_X_direction_sls_value(obj) ==
    eccentricity(CF_total_moments_X_direction_sls_value(obj),
                 CF_total_force_Z_dir_sls_value(obj), 100000,
                 50 * obj.foundation_length)

\* eccentricity_Y_direction_sls of CombinedFootingAnalysis, lines 985-998
CF_eccentricity_Y_direction_sls_value(obj) ==
    eccentricity(CF_total_moments_Y_direction_sls_value(obj),
                 CF_total_force_Z_dir_sls_value(obj), 100000,
                 50 * obj.foundation_width)

\* pad_base_pressures_sls of CombinedFootingAnalysis, lines 1000-1101, the
\* same expressions as the pad's
CF_pad_base_pressures_sls_value(obj) ==
    base_pressures(CF_total_force_Z_dir_sls_value(obj),
                   CF_eccentricity_X_direction_sls_value(obj),
                   CF_eccentricity_Y_direction_sls_value(obj),
                   obj.foundation_length, obj.foundation_width, 100, 100)

CFPressureQuery(value) ==
    LET done == /\ CF_query_ok(cf)
                /\ CF_moments_X_sls_indexable(cf)
                /\ CF_moments_Y_sls_indexable(cf)
                /\ CF_total_force_Z_dir_sls_value(cf) # 0
    IN  /\ calls < MaxCalls
        /\ calls' = calls + 1
        /\ cf' = CF_foundation_loads_stored(cf, CF_stored_foundation_args(cf),
                                            cf.consider_self_weight)
        /\ outcome' = IF done THEN "ok" ELSE "raised"
        /\ ret' = IF done THEN value ELSE <<>>
        /\ UNCHANGED <<pad, pdes, cdes, rp, last>>

CF_pad_base_pressures_sls ==
    /\ op' = "CF_pad_base_pressures_sls"
    /\ CFPressureQuery(CF_pad_base_pressures_sls_value(cf))

\* bearing_pressure_check_sls of CombinedFootingAnalysis, lines 1103-1126
CF_bearing_pressure_check_sls ==
    /\ op' = "CF_bearing_pressure_check_sls"
    /\ CFPressureQuery(<< bearing_pressure_status(
                             CF_pad_base_pressures_sls_value(cf),
                             cf.soil_bearing_capacity) >>)

CombinedAxialArgs == { <<15, 0, 5>>, <<150, 60, 0>> }

InitPressures ==
    /\ pad \in { SetUpPressurePad(obj) : obj \in PadObjects }
    /\ pdes = <<>>
    /\ cf \in { SetUpCombined(obj) : obj \in CombinedObjects }
    /\ cdes = <<>>
    /\ rp = <<>>
    /\ ret = <<>>
    /\ outcome = "init"
    /\ op = ""
    /\ last = [SetUpLast EXCEPT !.pad_foundation_loads = SetUpPadFoundationLoads,
                                !.times["pad_foundation_loads"] = 1,
                                !.column_axial_loads = SetUpPressureAxial,
                                !.times["column_axial_loads"] = 1]
    /\ calls = 0

NextPressures ==
    \/ \E a \in PressureFoundationLoadArgs : Pad_foundation_loads(a)
    \/ \E args \in PressureAxialArgs : column_axial_loads(args)
    \/ \E args \in PressureHorizontalArgs : column_horizontal_loads_xdir(args)
    \/ \E args \in PressureMomentArgs : column_moments_xdir(args)
    \/ \E args \in PressureMomentArgs : column_moments_ydir(args)
    \/ Pad_pad_base_pressures_sls
    \/ Pad_pad_base_pressures_uls
    \/ Pad_bearing_pressure_check_sls
    \/ \E args \in CombinedAxialArgs : update_column_1_axial_loads(args)
    \/ \E args \in CombinedMomentArgs : update_column_1_moments_xdir(args)
    \/ CF_pad_base_pressures_sls
    \/ CF_bearing_pressure_check_sls

SpecPressures == InitPressures /\ [][NextPressures]_vars


\* the four pressures a query has returned are all equal to value
AllCornersEqual(value) == \A i \in 1..4 : ret[i] = value

\* C13: when the eccentricity is zero in both axes, the four corner
\* pressures returned by pad_base_pressures_sls and pad_base_pressures_uls
\* (pad) and by pad_base_pressures_sls (combined footing) all equal the
\* vertical total of the limit state over the footing area, to 3 decimals.
C13_ZeroEccentricityGivesUniformPressure ==
    /\ ( /\ op = "Pad_pad_base_pressures_sls" /\ outcome = "ok"
         /\ Pad_eccentricity_X_direction_sls_value(pad) = 0
         /\ Pad_eccentricity_Y_direction_sls_value(pad) = 0 )
          => AllCornersEqual(RoundDiv(Pad_total_force_Z_dir_sls_value(pad),
                                      Pad_area_of_foundation(pad)))
    /\ ( /\ op = "Pad_pad_base_pressures_uls" /\ outcome = "ok"
         /\ Pad_eccentricity_X_direction_uls_value(pad) = 0
         /\ Pad_eccentricity_Y_direction_uls_value(pad) = 0 )
          => AllCornersEqual(RoundDiv(100 * Pad_total_force_Z_dir_uls_value(pad),
                                      Pad_area_of_foundation(pad)))
    /\ ( /\ op = "CF_pad_base_pressures_sls" /\ outcome = "ok"
         /\ CF_eccentricity_X_direction_sls_value(cf) = 0
         /\ CF_eccentricity_Y_direction_sls_value(cf) = 0 )
          => AllCornersEqual(RoundDiv(CF_total_force_Z_dir_sls_value(cf),
                                      CF_area_of_foundation(cf)))

\* the SLS pressures of a pad loaded at its centre have been returned
C13_Witness ==
    /\ op = "Pad_pad_base_pressures_sls"
    /\ outcome = "ok"
    /\ Pad_eccentricity_X_direction_sls_value(pad) = 0
    /\ Pad_eccentricity_Y_direction_sls_value(pad) = 0
    /\ ret[1] > 0

\* F_z / A x (1 + sx 6 ex / L + sy 6 ey / W) to 3 decimals, in thousandths of
\* kN/m2, for the signs sx, sy
FormulaCornerPressure(force, ex, ey, length, width, one, unit, sx, sy) ==
    ScaledQuotient(one * length * width + sx * 6 * ex * width
                     + sy * 6 * ey * length,
                   force, unit * length * width * length * width)

CornerSigns == << <<0 - 1, 0 - 1>>, <<0 - 1, 1>>, <<1, 0 - 1>>, <<1, 1>> >>

\* C14: q1..q4 are F_z/A x (1 +/- 6 ex/L +/- 6 ey/W) with the sign pairs
\* (-,-), (-,+), (+,-), (+,+) in that order, ex and ey being the
\* eccentricities of the limit state, at SLS and at ULS, whatever the sign of
\* the resulting pressure.
C14_CornerPressuresFollowTheFormula ==
    /\ (op = "Pad_pad_base_pressures_sls" /\ outcome = "ok") =>
          \A i \in 1..4 :
              ret[i] = FormulaCornerPressure(
                           Pad_total_force_Z_dir_sls_value(pad),
                           Pad_eccentricity_X_direction_sls_value(pad),
                           Pad_eccentricity_Y_direction_sls_value(pad),
                           pad.foundation_length, pad.foundation_width, 100, 100,
                           CornerSigns[i][1], CornerSigns[i][2])
    /\ (op = "Pad_pad_base_pressures_uls" /\ outcome = "ok") =>
          \A i \in 1..4 :
              ret[i] = FormulaCornerPressure(
                           Pad_total_force_Z_dir_uls_value(pad),
                           Pad_eccentricity_X_direction_uls_value(pad),
                           Pad_eccentricity_Y_direction_uls_value(pad),
                           pad.foundation_length, pad.foundation_width,
                           100000, 1000,
                           CornerSigns[i][1], CornerSigns[i][2])

\* pressures with a negative corner and four different values were returned
C14_Witness ==
    /\ op \in { "Pad_pad_base_pressures_sls", "Pad_pad_base_pressures_uls" }
    /\ outcome = "ok"
    /\ ret[1] < 0
    /\ Cardinality({ ret[i] : i \in 1..4 }) = 4

\* C15: bearing_pressure_check_sls reports PASS exactly when the largest SLS
\* corner pressure is at most the bearing capacity, and Fail otherwise; a
\* negative smallest corner pressure does not make it report Fail.
C15_PassIffMaximumWithinCapacity ==
    /\ (op = "Pad_bearing_pressure_check_sls" /\ outcome = "ok") =>
          /\ ret[1] \in { "PASS", "Fail" }
          /\ ret[1] = "PASS"
               <=> MaxOf(Pad_pad_base_pressures_sls_value(pad))
                     <= 1000 * pad.soil_bearing_capacity
    /\ (op = "CF_bearing_pressure_check_sls" /\ outcome = "ok") =>
          /\ ret[1] \in { "PASS", "Fail" }
          /\ ret[1] = "PASS"
               <=> MaxOf(CF_pad_base_pressures_sls_value(cf))
                     <= 1000 * cf.soil_bearing_capacity

\* the check passed on a footing with a negative corner pressure
C15_Witness ==
    /\ op = "Pad_bearing_pressure_check_sls"
    /\ outcome = "ok"
    /\ ret = << "PASS" >>
    /\ MinOf(Pad_pad_base_pressures_sls_value(pad)) < 0


(***************************************************************************)
(* The data-model invariants under constructor and setter calls.           *)
(***************************************************************************)
\* the history of a freshly constructed pad; that of the combined footing is
\* kept
PadLastReset(l) ==
    [ f \in DOMAIN l |->
        IF f = "times"
        THEN [ n \in DOMAIN l.times |->
                 IF n \in PadLoadSetters \cup { "pad_foundation_loads" }
                 THEN 0 ELSE l.times[n] ]
        ELSE IF f \in PadLoadSetters \cup { "pad_foundation_loads" }
        THEN InitLast[f] ELSE l[f] ]

\* the history of a freshly constructed combined footing; that of the pad is
\* kept
CombinedLastReset(l) ==
    [ f \in DOMAIN l |->
        IF f = "times"
        THEN [ n \in DOMAIN l.times |->
                 IF n \in PadLoadSetters \cup { "pad_foundation_loads" }
                 THEN l.times[n] ELSE 0 ]
        ELSE IF f \in PadLoadSetters \cup { "pad_foundation_loads" }
        THEN l[f] ELSE InitLast[f] ]

\* PadFoundation(...), lines 120-209: a rejected construction yields no
\* object, and the pad in use stays
PadFoundation_new(a) ==
    LET ok == PadFoundation_init_ok(a[1], a[2], a[3], a[4], a[5], a[6], a[7])
    IN  /\ calls < MaxCalls
        /\ calls' = calls + 1
        /\ op' = "PadFoundation"
        /\ pad' = IF ok THEN PadFoundation_init(a[1], a[2], a[3], a[4], a[5], a[6], a[7])
                  ELSE pad
        /\ outcome' = IF ok THEN "ok" ELSE "raised"
        /\ last' = IF ok THEN PadLastReset(last) ELSE last
        /\ ret' = <<>>
        /\ UNCHANGED <<pdes, cf, cdes, rp>>

\* CombinedFootingAnalysis(...), lines 66-148
CombinedFootingAnalysis_new(a) ==
    LET ok == CombinedFootingAnalysis_init_ok(a[1], a[2], a[3])
    IN  /\ calls < MaxCalls
        /\ calls' = calls + 1
        /\ op' = "CombinedFootingAnalysis"
        /\ cf' = IF ok THEN CombinedFootingAnalysis_init(a[1], a[2], a[3], a[4])
                 ELSE cf
        /\ outcome' = IF ok THEN "ok" ELSE "raised"
        /\ last' = IF ok THEN CombinedLastReset(last) ELSE last
        /\ ret' = <<>>
        /\ UNCHANGED <<pad, pdes, cdes, rp>>

PadConstructorArgs ==
    { <<12, 10, 300, 300, 6, 5, 150>>, <<20, 15, 400, 300, 4, 5, 200>>,
      <<5, 10, 300, 300, 2, 5, 150>>, <<12, 10, 50, 300, 6, 5, 150>>,
      <<12, 10, 300, 300, 13, 5, 150>> }

CombinedConstructorArgs == { <<12, 10, 150, 6>>, <<5, 10, 150, 6>> }

InvariantFoundationLoadArgs ==
    { <<300, 500, 18, 24>>, <<0 - 300, 500, 18, 24>>, <<300, 0 - 500, 18, 24>>,
      <<300, 500, 10, 24>>, <<NotANumber, 500, 18, 24>> }

InvariantGeometryArgs ==
    { <<300, 300, 3, 5>>, <<50, 300, 3, 5>>, <<300, 300, 20, 5>>,
      <<300, 0 - 300, 3, 5>> }

NextInvariants ==
    \/ \E a \in PadConstructorArgs : PadFoundation_new(a)
    \/ \E a \in CombinedConstructorArgs : CombinedFootingAnalysis_new(a)
    \/ \E a \in InvariantFoundationLoadArgs : Pad_foundation_loads(a)
    \/ \E a \in InvariantFoundationLoadArgs, csw \in BOOLEAN : CF_foundation_loads(a, csw)
    \/ \E g \in InvariantGeometryArgs : update_column_1_geometry(g)
    \/ \E g \in InvariantGeometryArgs : update_column_2_geometry(g)

SpecInvariants == Init /\ [][NextInvariants]_vars

\* the geometry list of a column holds only valid quadruples
ColumnGeometryValid(obj, geometry) ==
    \A k \in 0..((Len(geometry) \div 4) - 1) :
        /\ geometry[4 * k + 1] >= 100
        /\ geometry[4 * k + 2] >= 100
        /\ 0 <= geometry[4 * k + 3] /\ geometry[4 * k + 3] <= obj.foundation_length
        /\ 0 <= geometry[4 * k + 4] /\ geometry[4 * k + 4] <= obj.foundation_width

\* C18: after any sequence of constructor and setter calls, accepted or
\* rejected, footing length and width are at least 0.8 m, thickness and soil
\* depth are not negative, column length and width are at least 0.1 m and
\* every column position lies within the footing.
C18_DataModelInvariants ==
    /\ pad.foundation_length >= 8 /\ pad.foundation_width >= 8
    /\ pad.foundation_thickness >= 0 /\ pad.soil_depth_abv_foundation >= 0
    /\ pad.column_length >= 100 /\ pad.column_width >= 100
    /\ 0 <= pad.col_pos_xdir /\ pad.col_pos_xdir <= pad.foundation_length
    /\ 0 <= pad.col_pos_ydir /\ pad.col_pos_ydir <= pad.foundation_width
    /\ cf.foundation_length >= 8 /\ cf.foundation_width >= 8
    /\ cf.foundation_thickness >= 0 /\ cf.soil_depth_abv_foundation >= 0
    /\ ColumnGeometryValid(cf, cf.column_1_geometry)
    /\ ColumnGeometryValid(cf, cf.column_2_geometry)

(***************************************************************************)
(* The partial factors of one instance.  An assignment such as             *)
(* pad.uls_strength_factor_permanent = 1.0 gives the instance its own      *)
(* value; the class attribute and every other instance keep theirs.        *)
(***************************************************************************)
FactorValues == { 100, 120 }

AssignFactor(obj, name, value) ==
    [ k \in DOMAIN obj \cup { name } |-> IF k = name THEN value ELSE obj[k] ]

PadAssignFactor(name, value) ==
    /\ calls < MaxCalls
    /\ calls' = calls + 1
    /\ pad' = AssignFactor(pad, name, value)
    /\ outcome' = "ok"
    /\ ret' = <<>>
    /\ UNCHANGED <<pdes, cf, cdes, rp, last>>

CFAssignFactor(name, value) ==
    /\ calls < MaxCalls
    /\ calls' = calls + 1
    /\ cf' = AssignFactor(cf, name, value)
    /\ outcome' = "ok"
    /\ ret' = <<>>
    /\ UNCHANGED <<pad, pdes, cdes, rp, last>>

Pad_assign_uls_strength_factor_permanent(value) ==
    /\ op' = "Pad_assign_uls_strength_factor_permanent"
    /\ PadAssignFactor("uls_strength_factor_permanent", value)

Pad_assign_uls_strength_factor_imposed(value) ==
    /\ op' = "Pad_assign_uls_strength_factor_imposed"
    /\ PadAssignFactor("uls_strength_factor_imposed", value)

CF_assign_uls_strength_factor_permanent(value) ==
    /\ op' = "CF_assign_uls_strength_factor_permanent"
    /\ CFAssignFactor("uls_strength_factor_permanent", value)

CF_assign_uls_strength_factor_imposed(value) ==
    /\ op' = "CF_assign_uls_strength_factor_imposed"
    /\ CFAssignFactor("uls_strength_factor_imposed", value)

(***************************************************************************)
(* The load terms of the punching checks at 1d and of the loading          *)
(* diagrams.                                                               *)
(***************************************************************************)
\* fdn_loads_ult of punching_shear_check_1d (line 1863, and line 2029 of the
\* check at 2d), in 10^-7 kN: 1.35 * sum(fdn_loads) * area_of_foundation().
Pad_fdn_loads_ult(obj) ==
    LET fdn_loads == Pad_foundation_loads_result(Pad_stored_foundation_args(obj))
    IN  135 * (fdn_loads[1] + fdn_loads[2]) * Pad_area_of_foundation(obj)

\* column_axial_load of punching_shear_check_1d (lines 1864-1877), in
\* hundredths of kN.
Pad_column_axial_load(obj) ==
    uls_strength_factor_permanent_of(obj) * obj.permanent_axial_load
      + uls_strength_factor_imposed_of(obj) * obj.imposed_axial_load
      + uls_strength_factor_imposed_of(obj) * obj.wind_axial_load

\* udl of __loading_diagrams_X_dir of padFoundationDesign (lines 1321-1329),
\* in thousandths of N/m.
Pad_loading_diagram_udl(obj) ==
    LET fdn_loads == Pad_foundation_loads_result(Pad_stored_foundation_args(obj))
    IN  (fdn_loads[1] + fdn_loads[2]) * obj.foundation_width
          * uls_strength_factor_permanent_of(obj)

\* punching_shear_check_1d of padFoundationDesign, lines 1801-1963.
\* resistance is __punching_shear()[2] and ved_design the design stress, in
\* thousandths of N/mm2; both come out of the beam solver, roots and pi and
\* are drawn from small sets.  Nothing is returned when they are equal.
punching_shear_check_1d(resistance, ved_design) ==
    /\ calls < MaxCalls
    /\ calls' = calls + 1
    /\ op' = "punching_shear_check_1d"
    /\ outcome' = IF Pad_design_chain_ok(pad) THEN "ok" ELSE "raised"
    /\ pdes' = IF Pad_design_chain_ok(pad)
               THEN Pad_foundation_loads_stored(pdes, Pad_stored_foundation_args(pad))
               ELSE pdes
    /\ ret' = IF ~ Pad_design_chain_ok(pad) THEN <<>>
              ELSE IF resistance > ved_design
              THEN << "PASS", resistance, ved_design >>
              ELSE IF resistance < ved_design
              THEN << "FAIL", resistance, ved_design >>
              ELSE <<>>
    /\ UNCHANGED <<pad, cf, cdes, rp, last>>

\* fdn_loads_ult of col_1_punching_shear_check_1d (lines 2835-2845; the same
\* at lines 3029-3039, 3262-3272 and 3456-3466), in 10^-7 kN.  The call of
\* foundation_loads passes no consider_self_weight, whose default is True.
CF_fdn_loads_ult(obj) ==
    LET fdn_loads == CF_foundation_loads_result(CF_stored_foundation_args(obj), TRUE)
    IN  135 * (fdn_loads[1] + fdn_loads[2]) * CF_area_of_foundation(obj)

\* column_axial_load of a punching check of the combined footing (lines
\* 2846-2859), in hundredths of kN; axial_loads is the column's load list.
CF_column_axial_load(obj, axial_loads) ==
    uls_strength_factor_permanent_of(obj) * axial_loads[1]
      + uls_strength_factor_imposed_of(obj) * axial_loads[2]
      + uls_strength_factor_imposed_of(obj) * axial_loads[3]

\* udl of __loading_diagrams_X_dir of CombinedFootingDesign (lines 1970-1979),
\* in thousandths of N/m.
CF_loading_diagram_udl(obj) ==
    LET fdn_loads == CF_foundation_loads_result(CF_stored_foundation_args(obj),
                                                obj.consider_self_weight)
    IN  (fdn_loads[1] + fdn_loads[2]) * obj.foundation_width
          * uls_strength_factor_permanent_of(obj)

\* total_axial_force_uls (lines 1539-1558): the point loads of the two
\* columns in the loading diagram, in hundredths of kN.
CF_total_axial_force_uls_value(obj) ==
    << CF_column_axial_load(obj, obj.column_1_axial_loads),
       CF_column_axial_load(obj, obj.column_2_axial_loads) >>

(***************************************************************************)
(* Both footings in use with a design object each, and partial factors     *)
(* assigned on either instance between the queries and the checks.         *)
(***************************************************************************)
InitFactors ==
    /\ pad \in { SetUpPressurePad(obj) : obj \in PadObjects }
    /\ pdes = padFoundationDesign_init(pad, SetUpPadDesign)
    /\ cf \in { SetUpCombined(obj) : obj \in CombinedObjects }
    /\ cdes = CombinedFootingDesign_init(cf, SetUpPadDesign)
    /\ rp = <<>>
    /\ ret = <<>>
    /\ outcome = "init"
    /\ op = ""
    /\ last = [SetUpLast EXCEPT !.pad_foundation_loads = SetUpPadFoundationLoads,
                                !.times["pad_foundation_loads"] = 1,
                                !.column_axial_loads = SetUpPressureAxial,
                                !.times["column_axial_loads"] = 1]
    /\ calls = 0

NextFactors ==
    \/ \E v \in FactorValues : Pad_assign_uls_strength_factor_permanent(v)
    \/ \E v \in FactorValues : Pad_assign_uls_strength_factor_imposed(v)
    \/ \E v \in FactorValues : CF_assign_uls_strength_factor_permanent(v)
    \/ \E v \in FactorValues : CF_assign_uls_strength_factor_imposed(v)
    \/ \E args \in PressureAxialArgs : column_axial_loads(args)
    \/ Pad_total_force_Z_dir_uls
    \/ CF_total_force_Z_dir_uls
    \/ \E r \in PunchingResistances, v \in DesignStresses :
          punching_shear_check_1d(r, v)
    \/ \E r \in PunchingResistances, v \in DesignStresses :
          col_1_punching_shear_check_1d(r, v)

SpecFactors == InitFactors /\ [][NextFactors]_vars

\* gamma_G x permanent + gamma_Q x imposed + gamma_Q x wind of a load triple,
\* in hundredths of kN.
FormulaFactored(gamma_G, gamma_Q, loads) ==
    gamma_G * loads[1] + gamma_Q * loads[2] + gamma_Q * loads[3]

\* The partial factors an instance carries now.
CurrentFactors(obj) ==
    << uls_strength_factor_permanent_of(obj), uls_strength_factor_imposed_of(obj) >>

\* The ULS load terms of the pad follow its current factors.
PadUsesCurrentFactors ==
    LET gamma == CurrentFactors(pad)
        weight == FormulaWeightSls(pad.foundation_length, pad.foundation_width,
                                   last.pad_foundation_loads, TRUE)
    IN  /\ (op = "Pad_total_force_Z_dir_uls" /\ outcome = "ok") =>
              Abs(10000 * (ret[1] - 10 * FormulaFactored(gamma[1], gamma[2],
                                                         last.column_axial_loads))
                  - gamma[1] * weight) <= 5000
        /\ (op = "punching_shear_check_1d" /\ outcome = "ok") =>
              /\ Pad_column_axial_load(pad)
                   = FormulaFactored(gamma[1], gamma[2], last.column_axial_loads)
              /\ Pad_loading_diagram_udl(pad) * pad.foundation_length
                   = gamma[1] * weight
              /\ Pad_fdn_loads_ult(pad) = gamma[1] * weight

\* The ULS load terms of the combined footing follow its current factors.
CombinedUsesCurrentFactors ==
    LET gamma == CurrentFactors(cf)
        weight == FormulaWeightSls(cf.foundation_length, cf.foundation_width,
                                   last.cf_foundation_loads, cf.consider_self_weight)
    IN  /\ (op = "CF_total_force_Z_dir_uls" /\ outcome = "ok") =>
              ret[1] = 100000 * (FormulaFactored(gamma[1], gamma[2],
                                                 last.column_1_axial_loads)
                                 + FormulaFactored(gamma[1], gamma[2],
                                                   last.column_2_axial_loads))
                       + gamma[1] * weight
        /\ (op = "col_1_punching_shear_check_1d" /\ outcome = "ok" /\ ret # <<>>) =>
              /\ CF_total_axial_force_uls_value(cf)
                   = << FormulaFactored(gamma[1], gamma[2], last.column_1_axial_loads),
                        FormulaFactored(gamma[1], gamma[2], last.column_2_axial_loads) >>
              /\ CF_loading_diagram_udl(cf) * cf.foundation_length = gamma[1] * weight
              /\ CF_fdn_loads_ult(cf) = gamma[1] * weight

\* C19: the ULS quantities derived from an instance (total vertical force,
\* beam self-weight load, column point loads and the self-weight term of the
\* punching design force) use the partial factors the instance carries when
\* they are computed, and an assignment on one instance leaves the factors
\* of the other instance as they were.
C19_UlsQuantitiesUseInstanceFactors ==
    [][ /\ PadUsesCurrentFactors'
        /\ CombinedUsesCurrentFactors'
        /\ CurrentFactors(pad') # CurrentFactors(pad)
             => CurrentFactors(cf') = CurrentFactors(cf)
        /\ CurrentFactors(cf') # CurrentFactors(cf)
             => CurrentFactors(pad') = CurrentFactors(pad) ]_vars

(***************************************************************************)
(* The combined footing with its self weight switched off and on again     *)
(* between the queries of the analysis and the punching checks of the      *)
(* design.                                                                 *)
(***************************************************************************)
SelfWeightFoundationLoadArgs == { <<300, 500, 18, 24>>, <<400, 0, 18, 25>> }

NextSelfWeight ==
    \/ \E a \in SelfWeightFoundationLoadArgs, csw \in BOOLEAN :
          CF_foundation_loads(a, csw)
    \/ CF_total_force_Z_dir_sls
    \/ CF_total_force_Z_dir_uls
    \/ CF_pad_base_pressures_sls
    \/ \E r \in PunchingResistances, v \in DesignStresses :
          col_1_punching_shear_check_1d(r, v)
    \/ \E r \in PunchingResistances, v \in DesignStresses :
          col_2_punching_shear_check_2d(r, v)

SpecSelfWeight == InitFactors /\ [][NextSelfWeight]_vars

\* The same footing with a base that weighs nothing.
Weightless(obj) == [obj EXCEPT !.concrete_unit_weight = 0]

\* A punching check (column 1 at 1d, column 2 at 2d) has been evaluated down
\* to its verdict.
PunchingCheckEvaluated ==
    /\ op \in { "col_1_punching_shear_check_1d", "col_2_punching_shear_check_2d" }
    /\ outcome = "ok"
    /\ ret # <<>>

\* C20: after a successful foundation_loads(..., consider_self_weight=False)
\* on the combined footing, and until a later call enables it again, the
\* concrete self weight is absent from every derived quantity: the SLS and ULS
\* vertical totals carry the soil surcharge only, and the eccentricities, the
\* base pressures, the beam self-weight load and the self-weight term of the
\* punching design force at 1d and 2d are those of a weightless base.
C20_SelfWeightSuppressedEverywhere ==
    LET gamma == CurrentFactors(cf)
        surcharge == FormulaWeightSls(cf.foundation_length, cf.foundation_width,
                                      last.cf_foundation_loads, FALSE)
        axial == last.column_1_axial_loads \o last.column_2_axial_loads
    IN  (~ last.cf_consider_self_weight /\ last.times["cf_foundation_loads"] > 0) =>
          /\ (op = "CF_total_force_Z_dir_sls" /\ outcome = "ok") =>
                ret[1] = 100000 * SumSeq(axial) + surcharge
          /\ (op = "CF_total_force_Z_dir_uls" /\ outcome = "ok") =>
                ret[1] = 100000 * (FormulaFactored(gamma[1], gamma[2],
                                                   last.column_1_axial_loads)
                                   + FormulaFactored(gamma[1], gamma[2],
                                                     last.column_2_axial_loads))
                         + gamma[1] * surcharge
          /\ (op = "CF_pad_base_pressures_sls" /\ outcome = "ok") =>
                /\ ret = CF_pad_base_pressures_sls_value(Weightless(cf))
                /\ CF_eccentricity_X_direction_sls_value(cf)
                     = CF_eccentricity_X_direction_sls_value(Weightless(cf))
                /\ CF_eccentricity_Y_direction_sls_value(cf)
                     = CF_eccentricity_Y_direction_sls_value(Weightless(cf))
          /\ PunchingCheckEvaluated =>
                /\ CF_loading_diagram_udl(cf) * cf.foundation_length
                     = gamma[1] * surcharge
                /\ CF_fdn_loads_ult(cf) = CF_fdn_loads_ult(Weightless(cf))

(***************************************************************************)
(* The remaining queries of the analysis classes: the rates of change of   *)
(* the base pressure and the geometry optimizer of the combined footing.   *)
(***************************************************************************)
\* base_pressure_rate_of_change_X of PadFoundation, lines 1134-1159, in
\* thousandths of kN/m: (q1 + q2) x width / 2 and (q3 + q4) x width / 2,
\* each rounded to 3 places.
Pad_base_pressure_rate_of_change_X_value(obj) ==
    LET q == Pad_pad_base_pressures_uls_value(obj)
    IN  << RoundDiv((q[1] + q[2]) * obj.foundation_width, 20),
           RoundDiv((q[3] + q[4]) * obj.foundation_width, 20) >>

\* base_pressure_rate_of_change_Y of PadFoundation, lines 1161-1185: the
\* bottom edge (q1 + q3) first, then the top edge (q4 + q2).
Pad_base_pressure_rate_of_change_Y_value(obj) ==
    LET q == Pad_pad_base_pressures_uls_value(obj)
    IN  << RoundDiv((q[1] + q[3]) * obj.foundation_length, 20),
           RoundDiv((q[4] + q[2]) * obj.foundation_length, 20) >>

Pad_base_pressure_rate_of_change_X ==
    /\ op' = "Pad_base_pressure_rate_of_change_X"
    /\ PadPressureQuery(Pad_base_pressure_rate_of_change_X_value(pad))

Pad_base_pressure_rate_of_change_Y ==
    /\ op' = "Pad_base_pressure_rate_of_change_Y"
    /\ PadPressureQuery(Pad_base_pressure_rate_of_change_Y_value(pad))

\* The candidate positions of foundation_geometry_optimizer are 5 mm apart:
\* np.arange(0, x - spacing, 0.005) paired with np.arange(spacing, x, 0.005)
\* along x, np.arange(0, y, 0.005) along y.  Lengths are in dm here.
OptimizerPositionsX(obj) ==
    IF obj.foundation_length > obj.spacing_btwn_columns
    THEN 0 .. 20 * (obj.foundation_length - obj.spacing_btwn_columns) - 1
    ELSE {}

OptimizerPositionsY(obj) ==
    IF obj.foundation_width > 0 THEN 0 .. 20 * obj.foundation_width - 1 ELSE {}

\* The sum of entries [0], [1], [2] of a load list.
FirstThree(loads) == loads[1] + loads[2] + loads[3]

\* Mdx - F x / 2 of candidate k in kN mm, whose sign against that of F is the
\* sign of ex: the weight term x y (fdn_loads) x / 2 is in both and cancels.
\* F is the sum of both axial load lists plus the weight.
OptimizerMomentX(obj, k) ==
    FirstThree(obj.column_1_axial_loads) * 5 * k
      + FirstThree(obj.column_2_axial_loads)
          * (100 * obj.spacing_btwn_columns + 5 * k)
      + 1000 * (FirstThree(obj.column_1_moments_xdir)
                + FirstThree(obj.column_2_moments_xdir))
      + (FirstThree(obj.column_1_horizontal_loads_xdir)
         + FirstThree(obj.column_2_horizontal_loads_xdir))
          * obj.foundation_thickness
      - SumSeq(obj.column_1_axial_loads \o obj.column_2_axial_loads)
          * 50 * obj.foundation_length

\* Mdy - F y / 2 of candidate k in kN mm: both columns are at the candidate.
OptimizerMomentY(obj, k) ==
    (FirstThree(obj.column_1_axial_loads) + FirstThree(obj.column_2_axial_loads))
        * 5 * k
      + 1000 * (FirstThree(obj.column_1_moments_ydir)
                + FirstThree(obj.column_2_moments_ydir))
      + (FirstThree(obj.column_1_horizontal_loads_ydir)
         + FirstThree(obj.column_2_horizontal_loads_ydir))
          * obj.foundation_thickness
      - SumSeq(obj.column_1_axial_loads \o obj.column_2_axial_loads)
          * 50 * obj.foundation_width

\* ex < 0 (ey < 0): the quotient of the moment and the total force is below
\* half the side.  The moment is a numpy float: divided by a total of zero it
\* gives -inf when negative and inf or nan otherwise.
OptimizerNegative(obj, moment) ==
    LET force == CF_total_force_Z_dir_sls_value(obj)
    IN  \/ force >= 0 /\ moment < 0
        \/ force < 0 /\ moment > 0

\* max(..., key=operator.itemgetter(1)): the farthest candidate of a set
Farthest(candidates) == CHOOSE k \in candidates : \A h \in candidates : h <= k

\* foundation_geometry_optimizer, lines 1230-1375: [column 1 x, column 2 x, y]
\* in mm, or the sentence of the except branch when no candidate of an axis
\* has a negative eccentricity (max() of an empty sequence raises ValueError).
CF_foundation_geometry_optimizer_value(obj) ==
    LET xs == { k \in OptimizerPositionsX(obj) :
                  OptimizerNegative(obj, OptimizerMomentX(obj, k)) }
        ys == { k \in OptimizerPositionsY(obj) :
                  OptimizerNegative(obj, OptimizerMomentY(obj, k)) }
    IN  IF xs = {} \/ ys = {}
        THEN << "The geometry cannot be optimized by this algorithm." >>
        ELSE << 5 * Farthest(xs),
                100 * obj.spacing_btwn_columns + 5 * Farthest(xs),
                5 * Farthest(ys) >>

\* For every candidate along x the optimizer calls foundation_loads with the
\* stored values and reads entries [0], [1], [2] of every load list; an
\* IndexError or the error of foundation_loads is not caught.  With no
\* candidate along x nothing is called and max() raises the ValueError.
CF_foundation_geometry_optimizer ==
    LET looped == OptimizerPositionsX(cf) # {}
        done == looped =>
                  /\ CF_query_ok(cf)
                  /\ \A f \in LoadFields : Len(cf[f]) >= 3 /\ AllNumbers(cf[f])
    IN  /\ calls < MaxCalls
        /\ calls' = calls + 1
        /\ op' = "CF_foundation_geometry_optimizer"
        /\ cf' = IF looped
                 THEN CF_foundation_loads_stored(cf, CF_stored_foundation_args(cf),
                                                 cf.consider_self_weight)
                 ELSE cf
        /\ outcome' = IF done THEN "ok" ELSE "raised"
        /\ ret' = IF done THEN CF_foundation_geometry_optimizer_value(cf) ELSE <<>>
        /\ UNCHANGED <<pad, pdes, cdes, rp, last>>

QueryFoundationLoadArgs ==
    { <<300, 500, 18, 24>>, <<400, 0, 18, 25>>, <<NotANumber, 500, 18, 24>> }

QueryMomentArgs == { <<10, 5, 0>>, <<10, NotANumber, 0>> }

NextQueries ==
    \/ \E a \in QueryFoundationLoadArgs : Pad_foundation_loads(a)
    \/ \E args \in QueryMomentArgs : column_moments_xdir(args)
    \/ \E a \in QueryFoundationLoadArgs, csw \in BOOLEAN : CF_foundation_loads(a, csw)
    \/ \E args \in QueryMomentArgs : update_column_2_moments_ydir(args)
    \/ Pad_total_force_Z_dir_sls
    \/ Pad_total_moments_X_direction_uls
    \/ Pad_pad_base_pressures_uls
    \/ Pad_base_pressure_rate_of_change_X
    \/ Pad_base_pressure_rate_of_change_Y
    \/ Pad_minimum_area_required
    \/ CF_total_force_Z_dir_sls
    \/ CF_total_moments_X_direction_sls
    \/ CF_pad_base_pressures_sls
    \/ CF_foundation_geometry_optimizer

SpecQueries == InitPressures /\ [][NextQueries]_vars

\* The derived-quantity queries of the two footings.
QueryNames ==
    { "Pad_total_force_Z_dir_sls", "Pad_total_moments_X_direction_uls",
      "Pad_pad_base_pressures_uls", "Pad_base_pressure_rate_of_change_X",
      "Pad_base_pressure_rate_of_change_Y", "Pad_minimum_area_required",
      "CF_total_force_Z_dir_sls", "CF_total_moments_X_direction_sls",
      "CF_pad_base_pressures_sls", "CF_foundation_geometry_optimizer" }

\* C21: a derived-quantity query leaves the footing, column, load-vector and
\* self-weight state of both footings as it was, and a query asked again
\* right after itself, with no setter call in between, returns (or raises) as
\* it did the first time.  The minimum area is left out of the second part
\* only: its model draws the rounding of an exact tie from two values.
C21_QueriesArePure ==
    [][ op' \in QueryNames =>
          /\ pad' = pad
          /\ cf' = cf
          /\ (op = op' /\ op' # "Pad_minimum_area_required")
                => (ret' = ret /\ outcome' = outcome) ]_vars

\* A query has returned on a combined footing whose self-weight is switched
\* off, after another query had run before it.
C21_Witness ==
    /\ op = "CF_total_force_Z_dir_sls"
    /\ outcome = "ok"
    /\ calls = 3
    /\ cf.consider_self_weight = FALSE
    /\ last.times["cf_foundation_loads"] = 2

(***************************************************************************)
(* The punching shear stress factor beta: the override of                  *)
(* update_punching_shear_stress_factor and its use by the checks at 1d and *)
(* 2d.  beta is in hundredths, the coefficient k in ten-thousandths and    *)
(* stresses in thousandths of N/mm2.                                       *)
(***************************************************************************)
\* beta_values of update_punching_shear_stress_factor: 1.5, 1.4, 1.15
beta_values == { 150, 140, 115 }

\* An update that leaves the stored value alone when the argument is not listed.
update_punching_shear_stress_factor_keeping(des, beta, sentinel) ==
    [des EXCEPT !.beta = IF beta \in beta_values THEN beta ELSE @]

\* update_punching_shear_stress_factor, foundationdesign.py lines 1749-1771
\* and combinedfootingdesign.py lines 2697-2720: a listed value is stored,
\* any other argument stores the value the design object was built with (0
\* on a pad design, 1 on a combined design).  "beta in beta_values" compares
\* with ==, which no argument makes raise.
update_punching_shear_stress_factor_stored(des, beta, sentinel) ==
    [des EXCEPT !.beta = IF beta \in beta_values THEN beta ELSE sentinel]

Pad_beta_sentinel == 0

CF_beta_sentinel == 100

Pad_update_punching_shear_stress_factor(beta) ==
    /\ calls < MaxCalls
    /\ calls' = calls + 1
    /\ op' = "Pad_update_punching_shear_stress_factor"
    /\ pdes' = update_punching_shear_stress_factor_stored(pdes, beta, Pad_beta_sentinel)
    /\ outcome' = "ok"
    /\ ret' = << beta >>
    /\ UNCHANGED <<pad, cf, cdes, rp, last>>

CF_update_punching_shear_stress_factor(beta) ==
    /\ calls < MaxCalls
    /\ calls' = calls + 1
    /\ op' = "CF_update_punching_shear_stress_factor"
    /\ cdes' = update_punching_shear_stress_factor_stored(cdes, beta, CF_beta_sentinel)
    /\ outcome' = "ok"
    /\ ret' = << beta >>
    /\ UNCHANGED <<pad, pdes, cf, rp, last>>

\* column_punching_coefficient_k, concretedesignfunc.py lines 161-169, of the
\* ratio num / den: np.interp over (0.5, 0.45), (1, 0.6), (2, 0.7), (3, 0.8).
\* << >> stands for the ValueError of a ratio outside [0.5, 3].
column_punching_coefficient_k(num, den) ==
    IF 2 * num < den \/ num > 3 * den THEN << >>
    ELSE IF num <= den THEN << 4500 + RoundDiv(1500 * (2 * num - den), den) >>
    ELSE IF num <= 2 * den THEN << 6000 + RoundDiv(1000 * (num - den), den) >>
    ELSE << 7000 + RoundDiv(1000 * (num - 2 * den), den) >>

\* The ratio handed on as it is.
column_ratio_as_given(c1, c2) == << c1, c2 >>

\* column_ratio = c1 / c2 as the checks pass it on, lines 1937-1941: at or
\* below 0.5 it becomes 0.5, at or above 3 it becomes 3.
column_ratio(c1, c2) ==
    IF 2 * c1 <= c2 THEN << 1, 2 >>
    ELSE IF c1 >= 3 * c2 THEN << 3, 1 >>
    ELSE << c1, c2 >>

\* ved_design of a check at 1d or 2d, foundationdesign.py lines 1925-1959 and
\* combinedfootingdesign.py lines 2912-2948.  ved and moment_term, which is
\* (sum of moments / V_eff) (perimeter / W) in hundredths, come out of pi and
\* the base pressures.  << >> stands for the error of the coefficient.
punching_ved_design(zero_eccentricity, c1, c2, stored, sentinel, ved, moment_term) ==
    IF zero_eccentricity THEN << ved >>
    ELSE LET ratio == column_ratio(c1, c2)
             k == column_punching_coefficient_k(ratio[1], ratio[2])
             beta == IF stored = sentinel
                     THEN 100 + (k[1] * moment_term) \div 10000
                     ELSE stored
         IN  IF k = << >> THEN << >> ELSE << (ved * beta) \div 100 >>

Pad_zero_eccentricity_uls(obj) ==
    /\ Pad_eccentricity_X_direction_uls_value(obj) = 0
    /\ Pad_eccentricity_Y_direction_uls_value(obj) = 0

\* total_moments_X_direction_uls and total_moments_Y_direction_uls of
\* CombinedFootingAnalysis, lines 1560-1681, in thousandths of kNm: every
\* column term by its partial factor, the weight at half the side by the
\* permanent factor, rounded to 3 places.  i is the entry of the column
\* geometry (3 for x, 4 for y) and side the footing side along the axis.
CF_moments_uls(obj, i, side, moments_1, horizontal_1, moments_2, horizontal_2) ==
    LET fdn_loads == CF_foundation_loads_result(CF_stored_foundation_args(obj),
                                                obj.consider_self_weight)
        factor == << uls_strength_factor_permanent_of(obj),
                     uls_strength_factor_imposed_of(obj),
                     uls_strength_factor_imposed_of(obj) >>
        column(axial, position, moments, horizontal) ==
            SumSeq([ j \in 1..3 |->
                       factor[j] * (100 * axial[j] * position + 1000 * moments[j]
                                    + horizontal[j] * obj.foundation_thickness) ])
        columns == column(obj.column_1_axial_loads, obj.column_1_geometry[i],
                          moments_1, horizontal_1)
                   + column(obj.column_2_axial_loads, obj.column_2_geometry[i],
                            moments_2, horizontal_2)
        weight == CF_area_of_foundation(obj) * (fdn_loads[1] + fdn_loads[2]) * side
    IN  Round3(columns \div 100 + factor[1] * (weight \div 200000),
               2000 * (columns % 100) + factor[1] * (weight % 200000),
               200000)

CF_total_moments_X_direction_uls_value(obj) ==
    CF_moments_uls(obj, 3, obj.foundation_length,
                   obj.column_1_moments_xdir, obj.column_1_horizontal_loads_xdir,
                   obj.column_2_moments_xdir, obj.column_2_horizontal_loads_xdir)

CF_total_moments_Y_direction_uls_value(obj) ==
    CF_moments_uls(obj, 4, obj.foundation_width,
                   obj.column_1_moments_ydir, obj.column_1_horizontal_loads_ydir,
                   obj.column_2_moments_ydir, obj.column_2_horizontal_loads_ydir)

\* eccentricity_X_direction_uls() == 0 and eccentricity_Y_direction_uls() == 0,
\* lines 1683-1711: round((M / F - side / 2) * 1000, 3) is 0 when the
\* difference is below 0.0005 mm, that is |200000 M - side F| < F / 100000
\* with M in thousandths of kNm, F in 10^-7 kN and the side in dm.  F is
\* 100000 x (factored axial loads) + gamma_G x weight; the product side x F
\* is taken apart so that no intermediate value leaves 32 bits.
CF_eccentricity_uls_is_zero(obj, moment, side) ==
    LET fdn_loads == CF_foundation_loads_result(CF_stored_foundation_args(obj),
                                                obj.consider_self_weight)
        force == CF_total_force_Z_dir_uls_value(obj)
        weight == CF_area_of_foundation(obj) * (fdn_loads[1] + fdn_loads[2])
        axial == (force - uls_strength_factor_permanent_of(obj) * weight) \div 100000
        q == (side * weight) \div 100000
        r == (side * weight) % 100000
        whole == 2 * moment - side * axial - uls_strength_factor_permanent_of(obj) * q
        difference == 100000 * whole - uls_strength_factor_permanent_of(obj) * r
    IN  /\ whole \in (0 - 1) .. 200
        /\ Abs(difference) < 20000
        /\ 100000 * Abs(difference) < force

CF_zero_eccentricity_uls(obj) ==
    /\ CF_eccentricity_uls_is_zero(obj, CF_total_moments_X_direction_uls_value(obj),
                                   obj.foundation_length)
    /\ CF_eccentricity_uls_is_zero(obj, CF_total_moments_Y_direction_uls_value(obj),
                                   obj.foundation_width)

\* punching_shear_check_1d and punching_shear_check_2d of padFoundationDesign,
\* lines 1801-1963 and 1965-2130, with the design stress put together from
\* the stress ved, the stored factor and the eccentricities as the code does.
Pad_punching_shear_check(resistance, ved, moment_term) ==
    LET chain == Pad_design_chain_ok(pad)
        stress == IF chain
                  THEN punching_ved_design(Pad_zero_eccentricity_uls(pad),
                                           pad.column_length, pad.column_width,
                                           pdes.beta, Pad_beta_sentinel,
                                           ved, moment_term)
                  ELSE << >>
    IN  /\ calls < MaxCalls
        /\ calls' = calls + 1
        /\ outcome' = IF stress = << >> THEN "raised" ELSE "ok"
        /\ pdes' = IF chain
                   THEN Pad_foundation_loads_stored(pdes, Pad_stored_foundation_args(pad))
                   ELSE pdes
        /\ ret' = IF stress = << >> THEN << >>
                  ELSE IF resistance > stress[1]
                  THEN << "PASS", resistance, stress[1] >>
                  ELSE IF resistance < stress[1]
                  THEN << "FAIL", resistance, stress[1] >>
                  ELSE << >>
        /\ UNCHANGED <<pad, cf, cdes, rp, last>>

Pad_punching_shear_check_1d(resistance, ved, moment_term) ==
    /\ op' = "punching_shear_check_1d"
    /\ Pad_punching_shear_check(resistance, ved, moment_term)

Pad_punching_shear_check_2d(resistance, ved, moment_term) ==
    /\ op' = "punching_shear_check_2d"
    /\ Pad_punching_shear_check(resistance, ved, moment_term)

\* The same for the four checks of CombinedFootingDesign, lines 2761-2954,
\* 2956-3148, 3189-3381 and 3383-3575.  An error of the coefficient would come
\* after the call of foundation_loads at the head of the check, which leaves
\* the footing's values and the default flag on the design object.  The PASS
\* sentence of col_1_punching_shear_check_1d prints the area of the perimeter
\* (area), the other sentences the design stress.
CF_column_punching_check(geometry, multiple, resistance, ved, moment_term, area) ==
    LET usable == CF_design_chain_ok(cf)
        stress == IF usable
                  THEN punching_ved_design(CF_zero_eccentricity_uls(cf),
                                           geometry[1], geometry[2],
                                           cdes.beta, CF_beta_sentinel,
                                           ved, moment_term)
                  ELSE << 0 >>
    IN  IF stress = << >>
        THEN /\ calls < MaxCalls
             /\ calls' = calls + 1
             /\ outcome' = "raised"
             /\ ret' = << >>
             /\ cf' = CF_foundation_loads_stored(cf, CF_stored_foundation_args(cf),
                                                 cf.consider_self_weight)
             /\ cdes' = CF_foundation_loads_stored(cdes, CF_stored_foundation_args(cf),
                                                   TRUE)
             /\ UNCHANGED <<pad, pdes, rp, last>>
        ELSE ColumnPunchingCheck(geometry, multiple, resistance, stress[1],
                                 IF area = << >> THEN stress[1] ELSE area[1])

CF_col_1_punching_shear_check_1d(resistance, ved, moment_term) ==
    /\ op' = "col_1_punching_shear_check_1d"
    /\ CF_column_punching_check(cf.column_1_geometry, 1, resistance, ved, moment_term,
                                << PunchingArea(cf.column_1_geometry[1],
                                                cf.column_1_geometry[2],
                                                PunchingOffset(cdes, 1)) >>)

CF_col_2_punching_shear_check_1d(resistance, ved, moment_term) ==
    /\ op' = "col_2_punching_shear_check_1d"
    /\ CF_column_punching_check(cf.column_2_geometry, 1, resistance, ved, moment_term, << >>)

CF_col_2_punching_shear_check_2d(resistance, ved, moment_term) ==
    /\ op' = "col_2_punching_shear_check_2d"
    /\ CF_column_punching_check(cf.column_2_geometry, 2, resistance, ved, moment_term, << >>)

\* Pads with a square column at the centre and with columns of aspect ratio
\* 4/3, 1/3 and 10/3 off the centre.
BetaPadObjects ==
    { PadFoundation_init(a[1], a[2], a[3], a[4], a[5], a[6], a[7]) :
        a \in { b \in { <<12, 10, 300, 300, 6, 5, 150>>,
                        <<12, 10, 400, 300, 4, 5, 200>>,
                        <<12, 10, 100, 300, 4, 5, 150>>,
                        <<12, 10, 1000, 300, 4, 5, 150>> } :
                  PadFoundation_init_ok(b[1], b[2], b[3], b[4], b[5], b[6], b[7]) } }

BetaArgs == { 150, 140, 115, 100, 130, 0, NotANumber }

UnfactoredStresses == { 400, 500 }

PunchingMomentTerms == { 0, 50 }

BetaResistances == { 450 }

BetaAxialArgs == { <<15, 0, 5>> }

BetaFoundationLoadArgs == { <<400, 0, 18, 25>> }

BetaMomentArgs == { <<10, 5, 0>> }

\* column 2 square, three times as long as wide and a third as long as wide
BetaGeometryArgs == { <<300, 300, 9, 5>>, <<900, 300, 9, 5>>, <<100, 300, 9, 5>> }

InitBeta ==
    /\ pad \in { SetUpPressurePad(obj) : obj \in BetaPadObjects }
    /\ pdes = padFoundationDesign_init(pad, SetUpPadDesign)
    /\ \E obj \in CombinedObjects, g \in BetaGeometryArgs :
          /\ cf = SetUpCombinedAt(obj, SetUpGeometry1, g)
          /\ last = [SetUpLast EXCEPT
                       !.column_2_geometry = g,
                       !.pad_foundation_loads = SetUpPadFoundationLoads,
                       !.times["pad_foundation_loads"] = 1,
                       !.column_axial_loads = SetUpPressureAxial,
                       !.times["column_axial_loads"] = 1]
    /\ cdes = CombinedFootingDesign_init(cf, SetUpPadDesign)
    /\ rp = << >>
    /\ ret = << >>
    /\ outcome = "init"
    /\ op = ""
    /\ calls = 0

NextBeta ==
    \/ \E b \in BetaArgs : Pad_update_punching_shear_stress_factor(b)
    \/ \E b \in BetaArgs : CF_update_punching_shear_stress_factor(b)
    \/ \E a \in BetaFoundationLoadArgs : Pad_foundation_loads(a)
    \/ \E a \in BetaFoundationLoadArgs : CF_foundation_loads(a, TRUE)
    \/ \E args \in BetaMomentArgs : column_moments_xdir(args)
    \/ \E args \in BetaAxialArgs : update_column_1_axial_loads(args)
    \/ \E r \in BetaResistances, v \in UnfactoredStresses, t \in PunchingMomentTerms :
          Pad_punching_shear_check_1d(r, v, t)
    \/ \E r \in BetaResistances, v \in UnfactoredStresses, t \in PunchingMomentTerms :
          Pad_punching_shear_check_2d(r, v, t)
    \/ \E r \in BetaResistances, v \in UnfactoredStresses, t \in PunchingMomentTerms :
          CF_col_1_punching_shear_check_1d(r, v, t)
    \/ \E r \in BetaResistances, v \in UnfactoredStresses, t \in PunchingMomentTerms :
          CF_col_2_punching_shear_check_1d(r, v, t)
    \/ \E r \in BetaResistances, v \in UnfactoredStresses, t \in PunchingMomentTerms :
          CF_col_2_punching_shear_check_2d(r, v, t)

SpecBeta == InitBeta /\ [][NextBeta]_vars

PadPunchingChecks == { "punching_shear_check_1d", "punching_shear_check_2d" }

CFPunchingChecks ==
    { "col_1_punching_shear_check_1d", "col_2_punching_shear_check_1d",
      "col_2_punching_shear_check_2d" }

\* The verdict is the one of comparing the resistance with stress, and the
\* FAIL sentence names that stress.
VerdictOf(verdict, stress) ==
    \/ verdict[1] = "PASS" /\ verdict[2] > stress
    \/ verdict[1] = "FAIL" /\ verdict[2] < stress /\ verdict[3] = stress

\* C22: once one of 1.5, 1.4, 1.15 is stored as the override, the verdict of
\* every check at 1d and 2d, of the pad and of the combined footing, is the
\* one of the stress multiplied by exactly the stored value, whatever the
\* loads, zero ULS eccentricity in both axes included.
C22_OverrideMultipliesEveryCheck ==
    /\ (op \in PadPunchingChecks /\ ret # << >> /\ pdes.beta \in beta_values)
          => \E ved \in UnfactoredStresses :
                VerdictOf(ret, (ved * pdes.beta) \div 100)
    /\ (op \in CFPunchingChecks /\ ret # << >> /\ cdes.beta \in beta_values)
          => \E ved \in UnfactoredStresses :
                VerdictOf(ret, (ved * cdes.beta) \div 100)

PadZeroEccentricityCheck ==
    /\ op \in PadPunchingChecks
    /\ ret # << >>
    /\ Pad_zero_eccentricity_uls(pad)

CFZeroEccentricityCheck ==
    /\ op \in CFPunchingChecks
    /\ ret # << >>
    /\ CF_zero_eccentricity_uls(cf)

\* C29: update_punching_shear_stress_factor(b) raises nothing and returns b;
\* it stores b when b is 1.5, 1.4 or 1.15 and otherwise puts back the value
\* that means "compute beta" (0 on a pad design, 1 on a combined design),
\* whatever was stored before; so the stored factor is always that value or
\* one of 1.5, 1.4, 1.15.
C29_OverrideStoredOrCleared ==
    [][ /\ op' = "Pad_update_punching_shear_stress_factor"
             => /\ outcome' = "ok"
                /\ ret' \in { << b >> : b \in BetaArgs }
                /\ pdes'.beta = IF ret'[1] \in { 150, 140, 115 } THEN ret'[1] ELSE 0
                /\ cdes' = cdes
        /\ op' = "CF_update_punching_shear_stress_factor"
             => /\ outcome' = "ok"
                /\ ret' \in { << b >> : b \in BetaArgs }
                /\ cdes'.beta = IF ret'[1] \in { 150, 140, 115 } THEN ret'[1] ELSE 100
                /\ pdes' = pdes
        /\ pdes'.beta \in { 0, 150, 140, 115 }
        /\ cdes'.beta \in { 100, 150, 140, 115 } ]_vars

\* A call with an argument outside the list has returned it and left the
\* combined design on 1, while the pad design holds an override.
C29_Witness ==
    /\ op = "CF_update_punching_shear_stress_factor"
    /\ ret = << 130 >>
    /\ cdes.beta = 100
    /\ pdes.beta = 140
    /\ calls = 3

\* The calls that store and clear the override, and one check of each footing.
NextOverride ==
    \/ \E b \in BetaArgs : Pad_update_punching_shear_stress_factor(b)
    \/ \E b \in BetaArgs : CF_update_punching_shear_stress_factor(b)
    \/ \E r \in BetaResistances, v \in UnfactoredStresses, t \in PunchingMomentTerms :
          Pad_punching_shear_check_1d(r, v, t)
    \/ \E r \in BetaResistances, v \in UnfactoredStresses, t \in PunchingMomentTerms :
          CF_col_2_punching_shear_check_1d(r, v, t)

SpecOverride == InitBeta /\ [][NextOverride]_vars

(***************************************************************************)
(* The coefficient k of table 6.1 and the column aspect ratios the checks  *)
(* hand to it.                                                             *)
(***************************************************************************)
\* A call of column_punching_coefficient_k with the ratio num / den.
column_punching_coefficient_k_call(num, den) ==
    /\ calls < MaxCalls
    /\ calls' = calls + 1
    /\ op' = "column_punching_coefficient_k"
    /\ outcome' = IF column_punching_coefficient_k(num, den) = << >>
                  THEN "raised" ELSE "ok"
    /\ ret' = column_punching_coefficient_k(num, den)
    /\ UNCHANGED <<pad, pdes, cf, cdes, rp, last>>

\* ratios below, at and above the ends and the points of the table
CoefficientRatios ==
    { <<1, 3>>, <<49, 100>>, <<1, 2>>, <<3, 4>>, <<1, 1>>, <<3, 2>>, <<2, 1>>,
      <<5, 2>>, <<3, 1>>, <<301, 100>>, <<10, 3>> }

CoefficientMomentArgs == { <<10, 5, 0>> }

NextCoefficient ==
    \/ \E ratio \in CoefficientRatios :
          column_punching_coefficient_k_call(ratio[1], ratio[2])
    \/ \E args \in CoefficientMomentArgs : column_moments_ydir(args)
    \/ \E r \in BetaResistances, v \in UnfactoredStresses, t \in PunchingMomentTerms :
          Pad_punching_shear_check_1d(r, v, t)
    \/ \E r \in BetaResistances, v \in UnfactoredStresses, t \in PunchingMomentTerms :
          Pad_punching_shear_check_2d(r, v, t)
    \/ \E r \in BetaResistances, v \in UnfactoredStresses, t \in PunchingMomentTerms :
          CF_col_1_punching_shear_check_1d(r, v, t)
    \/ \E r \in BetaResistances, v \in UnfactoredStresses, t \in PunchingMomentTerms :
          CF_col_2_punching_shear_check_1d(r, v, t)
    \/ \E r \in BetaResistances, v \in UnfactoredStresses, t \in PunchingMomentTerms :
          CF_col_2_punching_shear_check_2d(r, v, t)

SpecCoefficient == InitBeta /\ [][NextCoefficient]_vars

\* The k of the claim for the column c1 x c2, in ten-thousandths: 0.45 at a
\* ratio of 0.5 or less, 0.6 at 1, 0.7 at 2, 0.8 at 3 or more, and between
\* 0.45 and 0.8 elsewhere.
ClaimedCoefficients(c1, c2) ==
    IF 2 * c1 <= c2 THEN { 4500 }
    ELSE IF c1 >= 3 * c2 THEN { 8000 }
    ELSE IF c1 = c2 THEN { 6000 }
    ELSE IF c1 = 2 * c2 THEN { 7000 }
    ELSE 4500 .. 8000

\* The stresses a check of the column c1 x c2 can name with no override stored.
ClaimedStresses(c1, c2) ==
    { (ved * (100 + (k * t) \div 10000)) \div 100 :
        ved \in UnfactoredStresses, t \in PunchingMomentTerms,
        k \in ClaimedCoefficients(c1, c2) }

\* C27: column_punching_coefficient_k raises for a ratio below 0.5 or above
\* 3 and for no other; a punching check of a footing whose loads are usable
\* never raises, whatever the aspect ratio of the column, and the stress it
\* names is the one of a k that is 0.45 at a ratio of 0.5 or less, 0.6 at 1,
\* 0.7 at 2, 0.8 at 3 or more and within [0.45, 0.8] in between.
C27_ChecksClampTheRatio ==
    [][ /\ \A ratio \in CoefficientRatios :
              column_punching_coefficient_k_call(ratio[1], ratio[2])
                => /\ (outcome' = "raised")
                        = (2 * ratio[1] < ratio[2] \/ ratio[1] > 3 * ratio[2])
                   /\ outcome' = "ok" => ret'[1] \in 4500 .. 8000
        /\ (op' \in PadPunchingChecks /\ Pad_design_chain_ok(pad))
              => /\ outcome' = "ok"
                 /\ ret' # << >>
                      => ret'[3] \in ClaimedStresses(pad.column_length,
                                                     pad.column_width)
        /\ (op' \in CFPunchingChecks /\ CF_design_chain_ok(cf))
              => /\ outcome' = "ok"
                 /\ (op' # "col_1_punching_shear_check_1d" /\ ret' # << >>)
                      => ret'[3] \in ClaimedStresses(cf.column_2_geometry[1],
                                                     cf.column_2_geometry[2]) ]_vars

\* A check has named a stress for a column three times as long as wide or
\* more, on a footing with an eccentricity.
C27_Witness ==
    /\ op = "punching_shear_check_1d"
    /\ outcome = "ok"
    /\ ret # << >>
    /\ pad.column_length >= 3 * pad.column_width
    /\ ~ Pad_zero_eccentricity_uls(pad)
    /\ ret[3] = 560

CFClampedCheck ==
    /\ op = "col_2_punching_shear_check_1d"
    /\ outcome = "ok"
    /\ ret # << >>
    /\ 2 * cf.column_2_geometry[1] <= cf.column_2_geometry[2]
    /\ ret[3] = 488

(***************************************************************************)
(* The punching check at the column face of the combined footing.          *)
(***************************************************************************)
\* design_punching_shear_force of col_N_punching_shear_column_face, lines
\* 2735-2748 and 3163-3176, in hundredths of kN: the three entries of the
\* column's axial loads by their partial factors.
CF_design_punching_shear_force(obj, axial_loads) ==
    uls_strength_factor_permanent_of(obj) * axial_loads[1]
      + uls_strength_factor_imposed_of(obj) * axial_loads[2]
      + uls_strength_factor_imposed_of(obj) * axial_loads[3]

\* punching_shear_stress = self.beta * (force / (perimeter * average(dy, dx)
\* * 1000)), lines 2749-2752, as the fraction <<numerator, denominator>> in
\* N/mm2.  The factors a design object can hold (1, 1.15, 1.4, 1.5) are whole
\* multiples of 0.05, so 40 beta / 100 is 2 (beta / 5) with beta in hundredths.
CF_punching_shear_stress(obj, des, geometry, axial_loads) ==
    << 2 * (des.beta \div 5) * CF_design_punching_shear_force(obj, axial_loads),
       2 * (geometry[1] + geometry[2]) * (des.dx + des.dy) >>

\* The verdict of a check at the column face: nothing is returned when the
\* two values are equal.
column_face_verdict(vrd_max, punching_shear_stress) ==
    LET sign == CompareToStress(vrd_max, punching_shear_stress)
    IN  IF sign > 0
        THEN << "PASS", vrd_max, RoundStress(punching_shear_stress) >>
        ELSE IF sign < 0
        THEN << "FAIL", vrd_max, RoundStress(punching_shear_stress) >>
        ELSE << >>

\* col_1_punching_shear_column_face and col_2_punching_shear_column_face,
\* lines 2722-2759 and 3150-3187.  __punching_shear runs the loading
\* diagrams, which store the footing's values on the design object.
CF_column_face_check(geometry, axial_loads) ==
    LET done == CF_design_chain_ok(cf)
    IN  /\ calls < MaxCalls
        /\ calls' = calls + 1
        /\ outcome' = IF done THEN "ok" ELSE "raised"
        /\ ret' = IF done
                  THEN column_face_verdict(
                           Pad_vrd_max(cdes),
                           CF_punching_shear_stress(cf, cdes, geometry, axial_loads))
                  ELSE << >>
        /\ cf' = IF done
                 THEN CF_foundation_loads_stored(cf, CF_stored_foundation_args(cf),
                                                 cf.consider_self_weight)
                 ELSE cf
        /\ cdes' = IF done
                   THEN CF_foundation_loads_stored(cdes, CF_stored_foundation_args(cf),
                                                   cf.consider_self_weight)
                   ELSE cdes
        /\ UNCHANGED <<pad, pdes, rp, last>>

col_1_punching_shear_column_face ==
    /\ op' = "col_1_punching_shear_column_face"
    /\ CF_column_face_check(cf.column_1_geometry, cf.column_1_axial_loads)

col_2_punching_shear_column_face ==
    /\ op' = "col_2_punching_shear_column_face"
    /\ CF_column_face_check(cf.column_2_geometry, cf.column_2_axial_loads)

ColumnFaceAxialArgs == { <<100, 50, 20>>, <<100, 675, 0>> }

ColumnFaceBetaArgs == { 115, 130 }

NextColumnFace ==
    \/ \E args \in ColumnFaceAxialArgs : column_axial_loads(args)
    \/ \E b \in ColumnFaceBetaArgs : Pad_update_punching_shear_stress_factor(b)
    \/ \E b \in ColumnFaceBetaArgs : CF_update_punching_shear_stress_factor(b)
    \/ punching_shear_column_face
    \/ col_1_punching_shear_column_face
    \/ col_2_punching_shear_column_face

SpecColumnFace == InitBeta /\ [][NextColumnFace]_vars

\* gamma_G P_perm + gamma_Q P_imp + gamma_Q P_wind, in hundredths of kN
ClaimedFaceForce(obj, loads) ==
    uls_strength_factor_permanent_of(obj) * loads[1]
      + uls_strength_factor_imposed_of(obj) * loads[2]
      + uls_strength_factor_imposed_of(obj) * loads[3]

\* The verdict of comparing 0.5 (0.6 (1 - fck / 250)) (0.85 fck / 1.5) with
\* beta V / (column perimeter x average effective depth).
ClaimedFaceVerdict(des, beta, force, c1, c2) ==
    column_face_verdict(RoundDiv(170 * des.fck * (250 - des.fck), 250),
                        << 2 * (beta \div 5) * force,
                           2 * (c1 + c2) * (des.dx + des.dy) >>)

\* C23: at the column face of the pad column and of each column of the
\* combined footing, the force is gamma_G P_perm + gamma_Q P_imp +
\* gamma_Q P_wind, the stress is beta V / (perimeter x average effective
\* depth), beta being the stored factor (1 when none is stored), and the
\* verdict compares it with v_Rd,max.
C23_ColumnFaceForceAndStress ==
    /\ (op = "punching_shear_column_face" /\ outcome = "ok")
          => ret = ClaimedFaceVerdict(
                     pdes, IF pdes.beta = Pad_beta_sentinel THEN 100 ELSE pdes.beta,
                     ClaimedFaceForce(pad, << pad.permanent_axial_load,
                                              pad.imposed_axial_load,
                                              pad.wind_axial_load >>),
                     pad.column_length, pad.column_width)
    /\ (op = "col_1_punching_shear_column_face" /\ outcome = "ok")
          => ret = ClaimedFaceVerdict(
                     cdes, cdes.beta,
                     ClaimedFaceForce(cf, cf.column_1_axial_loads),
                     cf.column_1_geometry[1], cf.column_1_geometry[2])
    /\ (op = "col_2_punching_shear_column_face" /\ outcome = "ok")
          => ret = ClaimedFaceVerdict(
                     cdes, cdes.beta,
                     ClaimedFaceForce(cf, cf.column_2_axial_loads),
                     cf.column_2_geometry[1], cf.column_2_geometry[2])

(***************************************************************************)
(* The beam models of the loading diagrams.  A beam is its span, the list  *)
(* of its supports (coordinate in dm and the degrees of freedom fixed) and *)
(* the list of its loads in the order add_loads receives them.  The        *)
(* base-pressure load foundation_load1 is named only: its two ordinates    *)
(* come from base_pressure_rate_of_change and play no part in what          *)
(* supports and which loads the beam carries.                              *)
(***************************************************************************)
\* sum(fdn_loads) of the loading diagrams of padFoundationDesign (lines
\* 1321-1326 and 1359-1364), in thousandths of kN/m2.
Pad_loading_diagram_sum(obj) ==
    LET fdn_loads == Pad_foundation_loads_result(Pad_stored_foundation_args(obj))
    IN  fdn_loads[1] + fdn_loads[2]

\* sum(fdn_loads) of the loading diagrams of CombinedFootingDesign (lines
\* 1970-1976 and 2036-2042): the footing's flag is passed on.
CF_loading_diagram_sum(obj) ==
    LET fdn_loads == CF_foundation_loads_result(CF_stored_foundation_args(obj),
                                                obj.consider_self_weight)
    IN  fdn_loads[1] + fdn_loads[2]

\* __loading_diagrams_X_dir of padFoundationDesign, lines 1307-1343: one
\* support fixed in all three degrees of freedom, the base pressure and the
\* self-weight load -udl, which is added whatever its value.
Pad_loading_diagrams_X_dir(obj) ==
    [ span |-> obj.foundation_length,
      supports |-> << << obj.col_pos_xdir, <<1, 1, 1>> >> >>,
      loads |-> << << "foundation_load1" >>,
                   << "foundation_load2",
                      0 - Pad_loading_diagram_sum(obj) * obj.foundation_width
                            * uls_strength_factor_permanent_of(obj) >> >> ]

\* __loading_diagrams_Y_dir of padFoundationDesign, lines 1345-1381.
Pad_loading_diagrams_Y_dir(obj) ==
    [ span |-> obj.foundation_width,
      supports |-> << << obj.col_pos_ydir, <<1, 1, 1>> >> >>,
      loads |-> << << "foundation_load1" >>,
                   << "foundation_load2",
                      0 - Pad_loading_diagram_sum(obj) * obj.foundation_length
                            * uls_strength_factor_permanent_of(obj) >> >> ]

\* The loads of a loading diagram of CombinedFootingDesign (lines 1980-1999
\* and 2046-2065): breadth is the side the udl is spread over and at the
\* index of the coordinate in a geometry list (3 for x, 4 for y).
CF_loading_diagram_loads(obj, breadth, at) ==
    LET p == CF_total_axial_force_uls_value(obj)
        point_load_1 == << "point_load_1", p[1], obj.column_1_geometry[at] >>
        point_load_2 == << "point_load_2", p[2], obj.column_2_geometry[at] >>
        udl == CF_loading_diagram_sum(obj) * breadth
                 * uls_strength_factor_permanent_of(obj)
    IN  IF CF_loading_diagram_sum(obj) # 0
        THEN << << "foundation_load1" >>, << "foundation_load2", 0 - udl >>,
                point_load_1, point_load_2 >>
        ELSE << << "foundation_load1" >>, point_load_1, point_load_2 >>

\* __loading_diagrams_X_dir of CombinedFootingDesign, lines 1945-2000: a pin
\* at the x coordinate of each column, both added in every case.
CF_loading_diagrams_X_dir(obj) ==
    [ span |-> obj.foundation_length,
      supports |-> << << obj.column_1_geometry[3], <<1, 1, 0>> >>,
                      << obj.column_2_geometry[3], <<1, 1, 0>> >> >>,
      loads |-> CF_loading_diagram_loads(obj, obj.foundation_width, 3) ]

\* __loading_diagrams_Y_dir of CombinedFootingDesign, lines 2002-2066: one pin
\* when the two y coordinates are equal, two when they differ.
CF_loading_diagrams_Y_dir(obj) ==
    [ span |-> obj.foundation_width,
      supports |-> IF obj.column_1_geometry[4] = obj.column_2_geometry[4]
                   THEN << << obj.column_1_geometry[4], <<1, 1, 0>> >> >>
                   ELSE << << obj.column_1_geometry[4], <<1, 1, 0>> >>,
                           << obj.column_2_geometry[4], <<1, 1, 0>> >> >>,
      loads |-> CF_loading_diagram_loads(obj, obj.foundation_length, 4) ]

\* A public method of padFoundationDesign that builds a loading diagram:
\* self.foundation_loads stores the footing's four values on the design
\* object.  value is what the method hands back once the beam is built.
PadBeamCall(value) ==
    LET chain == Pad_design_chain_ok(pad)
    IN  /\ calls < MaxCalls
        /\ calls' = calls + 1
        /\ outcome' = IF chain /\ value # << >> THEN "ok" ELSE "raised"
        /\ pdes' = IF chain
                   THEN Pad_foundation_loads_stored(pdes, Pad_stored_foundation_args(pad))
                   ELSE pdes
        /\ ret' = IF chain THEN value ELSE << >>
        /\ UNCHANGED <<pad, cf, cdes, rp, last>>

\* The same for CombinedFootingDesign: the base pressures store the footing's
\* own values on the footing again, and self.foundation_loads stores them and
\* the footing's flag on the design object.
CFBeamCall(value) ==
    LET chain == CF_design_chain_ok(cf)
    IN  /\ calls < MaxCalls
        /\ calls' = calls + 1
        /\ outcome' = IF chain /\ value # << >> THEN "ok" ELSE "raised"
        /\ cf' = IF chain
                 THEN CF_foundation_loads_stored(cf, CF_stored_foundation_args(cf),
                                                 cf.consider_self_weight)
                 ELSE cf
        /\ cdes' = IF chain
                   THEN CF_foundation_loads_stored(cdes, CF_stored_foundation_args(cf),
                                                   cf.consider_self_weight)
                   ELSE cdes
        /\ ret' = IF chain THEN value ELSE << >>
        /\ UNCHANGED <<pad, pdes, rp, last>>

\* plot_foundation_loading_X and _Y of padFoundationDesign (lines 1383-1405)
\* and of CombinedFootingDesign (lines 2068-2091): the figure is drawn from
\* the beam of the loading diagram, which stands for it here.
Pad_plot_foundation_loading_X ==
    /\ op' = "Pad_plot_foundation_loading_X"
    /\ PadBeamCall(<< Pad_loading_diagrams_X_dir(pad) >>)

Pad_plot_foundation_loading_Y ==
    /\ op' = "Pad_plot_foundation_loading_Y"
    /\ PadBeamCall(<< Pad_loading_diagrams_Y_dir(pad) >>)

CF_plot_foundation_loading_X ==
    /\ op' = "CF_plot_foundation_loading_X"
    /\ CFBeamCall(<< CF_loading_diagrams_X_dir(cf) >>)

CF_plot_foundation_loading_Y ==
    /\ op' = "CF_plot_foundation_loading_Y"
    /\ CFBeamCall(<< CF_loading_diagrams_Y_dir(cf) >>)

\* Footings with the column at mid-length and near the left edge.
BeamPadObjects ==
    { PadFoundation_init(a[1], a[2], a[3], a[4], a[5], a[6], a[7]) :
        a \in { b \in { <<12, 10, 300, 300, 6, 5, 150>>,
                        <<12, 10, 300, 300, 2, 5, 150>> } :
                  PadFoundation_init_ok(b[1], b[2], b[3], b[4], b[5], b[6], b[7]) } }

\* Column layouts of the combined footing: apart along x only, along y only,
\* along both, and with the second column away from the right edge.
BeamGeometryArgs ==
    { << <<300, 300, 3, 5>>, <<300, 300, 9, 5>> >>,
      << <<300, 300, 6, 3>>, <<300, 300, 6, 7>> >>,
      << <<300, 300, 3, 3>>, <<300, 300, 9, 7>> >>,
      << <<300, 300, 3, 5>>, <<300, 300, 7, 5>> >> }

BeamPadFoundationLoadArgs == { <<300, 500, 18, 24>>, <<0, 0, 18, 24>> }

BeamFoundationLoadArgs == { <<300, 500, 18, 24>>, <<300, 0, 18, 24>> }

InitBeam ==
    /\ pad \in { SetUpPressurePad(obj) : obj \in BeamPadObjects }
    /\ pdes = padFoundationDesign_init(pad, SetUpPadDesign)
    /\ \E obj \in CombinedObjects, g \in BeamGeometryArgs :
          /\ cf = SetUpCombinedAt(obj, g[1], g[2])
          /\ last = [SetUpLast EXCEPT
                       !.column_1_geometry = g[1],
                       !.column_2_geometry = g[2],
                       !.pad_foundation_loads = SetUpPadFoundationLoads,
                       !.times["pad_foundation_loads"] = 1,
                       !.column_axial_loads = SetUpPressureAxial,
                       !.times["column_axial_loads"] = 1]
    /\ cdes = CombinedFootingDesign_init(cf, SetUpPadDesign)
    /\ rp = << >>
    /\ ret = << >>
    /\ outcome = "init"
    /\ op = ""
    /\ calls = 0

NextBeam ==
    \/ \E a \in BeamPadFoundationLoadArgs : Pad_foundation_loads(a)
    \/ \E a \in BeamFoundationLoadArgs, csw \in BOOLEAN : CF_foundation_loads(a, csw)
    \/ Pad_plot_foundation_loading_X
    \/ Pad_plot_foundation_loading_Y
    \/ CF_plot_foundation_loading_X
    \/ CF_plot_foundation_loading_Y

SpecBeam == InitBeam /\ [][NextBeam]_vars

\* One support of the given kind at each distinct coordinate of the list.
OneSupportEach(coordinates, fixed) ==
    IF Len(coordinates) = 2 /\ coordinates[1] # coordinates[2]
    THEN << << coordinates[1], fixed >>, << coordinates[2], fixed >> >>
    ELSE << << coordinates[1], fixed >> >>

\* C24: the beam built for an axis has one support per distinct column
\* position along that axis: one fixed support under the column of a pad
\* footing; for a combined footing one pin where both columns have the same
\* coordinate on the axis and two pins where they differ, along x as along y.
C24_OneSupportPerColumnPosition ==
    /\ (op = "Pad_plot_foundation_loading_X" /\ outcome = "ok") =>
          ret[1].supports = OneSupportEach(<< pad.col_pos_xdir >>, <<1, 1, 1>>)
    /\ (op = "Pad_plot_foundation_loading_Y" /\ outcome = "ok") =>
          ret[1].supports = OneSupportEach(<< pad.col_pos_ydir >>, <<1, 1, 1>>)
    /\ (op = "CF_plot_foundation_loading_X" /\ outcome = "ok") =>
          ret[1].supports = OneSupportEach(<< cf.column_1_geometry[3],
                                              cf.column_2_geometry[3] >>, <<1, 1, 0>>)
    /\ (op = "CF_plot_foundation_loading_Y" /\ outcome = "ok") =>
          ret[1].supports = OneSupportEach(<< cf.column_1_geometry[4],
                                              cf.column_2_geometry[4] >>, <<1, 1, 0>>)

\* The names of the loads a beam carries.
LoadNames(beam) == { beam.loads[i][1] : i \in 1..Len(beam.loads) }

\* C25: in the beam of either footing and either axis the self-weight load
\* is there exactly when the net self-weight and surcharge term is not zero;
\* when it is zero the beam carries the base pressure only and, on a combined
\* footing, the two column point loads.
C25_SelfWeightLoadIffNonZero ==
    /\ (op \in {"Pad_plot_foundation_loading_X", "Pad_plot_foundation_loading_Y"}
          /\ outcome = "ok") =>
          LoadNames(ret[1]) =
             IF Pad_loading_diagram_sum(pad) # 0
             THEN {"foundation_load1", "foundation_load2"}
             ELSE {"foundation_load1"}
    /\ (op \in {"CF_plot_foundation_loading_X", "CF_plot_foundation_loading_Y"}
          /\ outcome = "ok") =>
          LoadNames(ret[1]) =
             IF CF_loading_diagram_sum(cf) # 0
             THEN {"foundation_load1", "foundation_load2",
                   "point_load_1", "point_load_2"}
             ELSE {"foundation_load1", "point_load_1", "point_load_2"}

\* The combined footing's beams do leave the self-weight load out at zero.
CFBeamWithoutSelfWeight ==
    /\ op = "CF_plot_foundation_loading_Y"
    /\ outcome = "ok"
    /\ CF_loading_diagram_sum(cf) = 0
    /\ Len(ret[1].loads) = 3

(***************************************************************************)
(* The design shear forces.  Coordinates along a beam are in half          *)
(* millimetres, as dx and dy are: a position of p dm is 200 p, half a      *)
(* column side of c mm is c.  The shear forces come out of the beam solver *)
(* and are drawn from a small set, in thousandths of kN, one for each      *)
(* point the solver is asked about.                                        *)
(***************************************************************************)
\* x1, x2 of get_design_shear_force_X (foundationdesign.py lines 1511-1518,
\* combinedfootingdesign.py lines 2334-2345): the points at the effective
\* depth from the two faces of a column.
shear_query_points(position, side, depth) ==
    << 200 * position - (side + depth), 200 * position + (side + depth) >>

\* filtered_query_point_list (combinedfootingdesign.py lines 2347-2349): the
\* points above zero, in their order.
filtered_query_point_list(query_point_list) ==
    SelectSeq(query_point_list, LAMBDA query_point : query_point > 0)

\* The lines after get_shear_force (1519-1522, 2350-2353): the largest
\* absolute value of the shears at the points asked about.  With no point
\* there is nothing to take the maximum of.
design_shear_force(points, shear) ==
    IF points = << >> THEN << >>
    ELSE << MaxOf([i \in 1..Len(points) |-> Abs(shear[i])]),
            points,
            [i \in 1..Len(points) |-> shear[i]] >>

\* get_design_shear_force_X and _Y of padFoundationDesign, lines 1499-1547:
\* both points go to the solver as they are.
Pad_get_design_shear_force_X(shear) ==
    /\ op' = "Pad_get_design_shear_force_X"
    /\ PadBeamCall(design_shear_force(
          shear_query_points(pad.col_pos_xdir, pad.column_length, pdes.dx), shear))

Pad_get_design_shear_force_Y(shear) ==
    /\ op' = "Pad_get_design_shear_force_Y"
    /\ PadBeamCall(design_shear_force(
          shear_query_points(pad.col_pos_ydir, pad.column_width, pdes.dy), shear))

\* get_design_shear_force_X of CombinedFootingDesign, lines 2322-2353.
CF_get_design_shear_force_X(shear) ==
    /\ op' = "CF_get_design_shear_force_X"
    /\ CFBeamCall(design_shear_force(
          filtered_query_point_list(
             shear_query_points(cf.column_1_geometry[3], cf.column_1_geometry[1], cdes.dx)
               \o shear_query_points(cf.column_2_geometry[3], cf.column_2_geometry[1],
                                     cdes.dx)),
          shear))

\* get_design_shear_force_Y of CombinedFootingDesign, lines 2355-2401: the
\* points of column 1 alone when both columns have the same y coordinate.
CF_get_design_shear_force_Y(shear) ==
    /\ op' = "CF_get_design_shear_force_Y"
    /\ CFBeamCall(design_shear_force(
          filtered_query_point_list(
             IF cf.column_1_geometry[4] = cf.column_2_geometry[4]
             THEN shear_query_points(cf.column_1_geometry[4], cf.column_1_geometry[2],
                                     cdes.dy)
             ELSE shear_query_points(cf.column_1_geometry[4], cf.column_1_geometry[2],
                                     cdes.dy)
                    \o shear_query_points(cf.column_2_geometry[4],
                                          cf.column_2_geometry[2], cdes.dy)),
          shear))

ShearForces == { 0 - 52500, 31250 }

ShearOutcomes == [1..4 -> ShearForces]

NextShear ==
    \/ \E a \in BeamPadFoundationLoadArgs : Pad_foundation_loads(a)
    \/ \E a \in BeamFoundationLoadArgs, csw \in BOOLEAN : CF_foundation_loads(a, csw)
    \/ \E shear \in ShearOutcomes : Pad_get_design_shear_force_X(shear)
    \/ \E shear \in ShearOutcomes : Pad_get_design_shear_force_Y(shear)
    \/ \E shear \in ShearOutcomes : CF_get_design_shear_force_X(shear)
    \/ \E shear \in ShearOutcomes : CF_get_design_shear_force_Y(shear)

SpecShear == InitBeam /\ [][NextShear]_vars

\* The points one effective depth beyond the faces of the columns at the
\* given positions that lie on a beam of the given span, in their order.
PointsOnBeam(positions, sides, depth, span) ==
    LET beyond(i) == << 200 * positions[i] - (sides[i] + depth),
                        200 * positions[i] + (sides[i] + depth) >>
        all == IF Len(positions) = 2 THEN beyond(1) \o beyond(2) ELSE beyond(1)
    IN  SelectSeq(all, LAMBDA point : 0 <= point /\ point <= 200 * span)

\* What the design shear is claimed to be for the points asked about.
ShearOverPoints(result, points) ==
    /\ result[2] = points
    /\ Len(result[3]) = Len(points)
    /\ \A i \in 1..Len(points) : result[1] >= Abs(result[3][i])
    /\ \E i \in 1..Len(points) : result[1] = Abs(result[3][i])

\* C26: the design shear force is the largest absolute shear over the points
\* one effective depth beyond each column face that lie within the beam: no
\* coordinate below 0 or above the span reaches the solver and every
\* coordinate from 0 to the span does.
C26_ShearPointsWithinTheBeam ==
    /\ (op = "Pad_get_design_shear_force_X" /\ outcome = "ok") =>
          ShearOverPoints(ret, PointsOnBeam(<< pad.col_pos_xdir >>,
                                            << pad.column_length >>, pdes.dx,
                                            pad.foundation_length))
    /\ (op = "Pad_get_design_shear_force_Y" /\ outcome = "ok") =>
          ShearOverPoints(ret, PointsOnBeam(<< pad.col_pos_ydir >>,
                                            << pad.column_width >>, pdes.dy,
                                            pad.foundation_width))
    /\ (op = "CF_get_design_shear_force_X" /\ outcome = "ok") =>
          ShearOverPoints(ret, PointsOnBeam(
             << cf.column_1_geometry[3], cf.column_2_geometry[3] >>,
             << cf.column_1_geometry[1], cf.column_2_geometry[1] >>,
             cdes.dx, cf.foundation_length))
    /\ (op = "CF_get_design_shear_force_Y" /\ outcome = "ok") =>
          ShearOverPoints(ret, PointsOnBeam(
             IF cf.column_1_geometry[4] = cf.column_2_geometry[4]
             THEN << cf.column_1_geometry[4] >>
             ELSE << cf.column_1_geometry[4], cf.column_2_geometry[4] >>,
             << cf.column_1_geometry[2], cf.column_2_geometry[2] >>,
             cdes.dy, cf.foundation_width))

\* A point left of the beam is dropped on the combined footing.
CFShearPointDropped ==
    /\ op = "CF_get_design_shear_force_X"
    /\ outcome = "ok"
    /\ 200 * cf.column_1_geometry[3] < cf.column_1_geometry[1] + cdes.dx
    /\ Len(ret[2]) = 3
    /\ \A i \in 1..3 : ret[2][i] > 0 /\ ret[2][i] <= 200 * cf.foundation_length

(***************************************************************************)
(* The frame of the ten update calls of the combined footing's loads.      *)
(***************************************************************************)
\* C28: an update call for one column's load list of one kind changes that
\* list only: the lists of the other column, the lists of the other kinds of
\* the same column and the geometry of both columns are after the call what
\* they were before it.
C28_UpdateChangesOnlyItsVector ==
    [][ /\ \A f \in LoadFields : op' # "update_" \o f => cf'[f] = cf[f]
        /\ cf'.column_1_geometry = cf.column_1_geometry
        /\ cf'.column_2_geometry = cf.column_2_geometry ]_vars

\* The nine other update calls do leave everything else alone.
UpdateKeptTheOthers ==
    /\ op = "update_column_1_moments_ydir"
    /\ outcome = "ok"
    /\ cf.column_1_moments_ydir = <<15, 0, 5>>
    /\ cf.column_2_moments_ydir = <<0, 0, 0>>
    /\ cf.column_1_axial_loads = <<10, 5, 0>>

(***************************************************************************)
(* reinforcement_provision over the yield strengths the design             *)
(* constructors accept.                                                    *)
(***************************************************************************)
\* C30: for every fyk above zero, which is all the design constructors ask
\* of it, and every required area above zero, reinforcement_provision
\* returns a result: a steel label R, Y, T or H, a bar of 8, 10, 12, 16, 20,
\* 25, 32 or 40 mm, a spacing that is not zero and a provided area.
C30_ProvisionIsDefined ==
    \A i \in {1, 2} :
        (rp[i].assteel > 0 /\ assert_strictly_positive_number(rp[i].fy)) =>
            /\ Len(rp[i].result) = 4
            /\ rp[i].result[1] \in {"R", "Y", "T", "H"}
            /\ rp[i].result[2] \in {"8mm", "10mm", "12mm", "16mm", "20mm", "25mm", "32mm", "40mm"}
            /\ rp[i].result[3] # 0
            /\ rp[i].result[4] > 0

\* Within fyk <= 500 and up to the largest area a 40 mm bar covers the
\* function does return all four.
ProvisionReturnedAllFour ==
    /\ rp[2].assteel = 6431
    /\ rp[2].fy = 460
    /\ rp[2].result = << "T", "40mm", 175, 7181 >>

====
